---- MODULE Spec2Model ----
(***************************************************************************)
(* Layout-override synchronization of the diagram editor server            *)
(* (pkg/server): the override Record (Metadata), its invalidation by the   *)
(* source fingerprint, the file watcher, and the per-viewer WebSocket      *)
(* workers that share the Server's text, Record and client registry.       *)
(*                                                                         *)
(* Strings that the code inspects character by character (node and edge    *)
(* identifiers) are sequences of tokens; source texts are numbered         *)
(* 0..MaxText, text 0 being the empty string; float64 label distances are  *)
(* counted in tenths (5 is 0.5).                                           *)
(***************************************************************************)
EXTENDS Integers, Sequences, FiniteSets, TLC

\* ------------------------------------------------------------------ bounds
MaxText == 2          \* source texts are 0..MaxText
NumViewers == 2       \* WebSocket connections that may be opened
MaxOps == 2           \* inputs in total: viewer messages, closes, PUT requests,
                      \* external writes, disk faults
MaxAppliers == 2      \* handleFileChanged goroutines alive at once
MaxCalls == 3         \* direct calls of the Metadata methods in a row
MaxFileCalls == 2     \* direct calls of SaveMetadata, LoadMetadata and New

\* ------------------------------------------------------- program constants
DigestSpace == 2      \* number of distinct digests (hash[:8] in the code)
HalfDistance == 5     \* the default label distance 0.5, in tenths

Texts == 0..MaxText
Viewers == 1..NumViewers
Appliers == 1..MaxAppliers

NoDigest == 0         \* the empty SourceHash "" of a Record never validated
EmptyMap == << >>     \* a Go map with no entries (or a nil map)
EmptyId == << >>      \* the empty string as an identifier

\* Identifiers, as token sequences.
NodeA == <<"n1">>
NodeB == <<"n2">>
NodeEscaped == <<"x", "&", "gt;", "y">>
EdgePlain == <<"a", ">", "b">>
EdgeEscaped == <<"a", "&", "gt;", "b">>

OffsetA == <<12, -5>>
OffsetB == <<3, 4>>
ZeroOffset == <<0, 0>>
VertexList == << <<10, 20>> >>
VertexListB == << <<1, 2>>, <<3, 4>> >>
EdgeOther == <<"b", ">", "c">>
LabelDefault == <<HalfDistance, 0, 0>>
LabelMoved == <<3, 1, 0>>
ZeroLabel == <<0, 0, 0>>

\* ------------------------------------------------------------ Go maps
MapPut(m, k, val) == [x \in (DOMAIN m) \cup {k} |-> IF x = k THEN val ELSE m[x]]

MapDelete(m, k) == [x \in (DOMAIN m) \ {k} |-> m[x]]

\* --------------------------------------------------------- metadata.go
\* Mutant: the identifier is used as it is written.
NormalizeEdgeIDVerbatim(edgeID) == edgeID

\* html.UnescapeString, one left-to-right pass over the entities &gt; &amp;
RECURSIVE NormalizeEdgeID(_)
NormalizeEdgeID(edgeID) ==
    IF edgeID = << >> THEN << >>
    ELSE IF Len(edgeID) >= 2 /\ edgeID[1] = "&" /\ edgeID[2] = "gt;"
         THEN <<">">> \o NormalizeEdgeID(SubSeq(edgeID, 3, Len(edgeID)))
    ELSE IF Len(edgeID) >= 2 /\ edgeID[1] = "&" /\ edgeID[2] = "amp;"
         THEN <<"&">> \o NormalizeEdgeID(SubSeq(edgeID, 3, Len(edgeID)))
    ELSE <<edgeID[1]>> \o NormalizeEdgeID(Tail(edgeID))

NewMetadata ==
    [version |-> 1, positions |-> EmptyMap, vertices |-> EmptyMap,
     routingMode |-> EmptyMap, labelPositions |-> EmptyMap,
     sourceHash |-> NoDigest]

\* The truncated SHA-256 digest: deterministic, never the empty string, and
\* not injective (DigestSpace digests for all texts).
HashSource(source) == (source % DigestSpace) + 1

\* Mutant: only the positions map is cleared on a mismatch.
ValidateAndCleanPositionsOnly(m, currentSource) ==
    IF m.sourceHash # HashSource(currentSource)
    THEN [m EXCEPT !.positions = EmptyMap,
                   !.sourceHash = HashSource(currentSource)]
    ELSE m

\* Mutant: the maps are cleared but the new fingerprint is not stamped.
ValidateAndCleanKeepsHash(m, currentSource) ==
    IF m.sourceHash # HashSource(currentSource)
    THEN [m EXCEPT !.positions = EmptyMap, !.vertices = EmptyMap,
                   !.routingMode = EmptyMap, !.labelPositions = EmptyMap]
    ELSE m

\* ValidateAndClean: the Record after the call.
ValidateAndClean(m, currentSource) ==
    IF m.sourceHash # HashSource(currentSource)
    THEN [m EXCEPT !.positions = EmptyMap, !.vertices = EmptyMap,
                   !.routingMode = EmptyMap, !.labelPositions = EmptyMap,
                   !.sourceHash = HashSource(currentSource)]
    ELSE m

\* ValidateAndClean: its return value.
ValidateAndCleanResult(m, currentSource) ==
    m.sourceHash # HashSource(currentSource)

\* Mutant: the offset is added to the one already stored.
SetPositionAccumulates(m, nodeID, off) ==
    IF nodeID \in DOMAIN m.positions
    THEN [m EXCEPT !.positions = MapPut(m.positions, nodeID,
                        <<m.positions[nodeID][1] + off[1], m.positions[nodeID][2] + off[2]>>)]
    ELSE [m EXCEPT !.positions = MapPut(m.positions, nodeID, off)]

\* Mutant: an entry already present is kept.
SetPositionKeepsFirst(m, nodeID, off) ==
    IF nodeID \in DOMAIN m.positions THEN m
    ELSE [m EXCEPT !.positions = MapPut(m.positions, nodeID, off)]

SetPosition(m, nodeID, off) ==
    [m EXCEPT !.positions = MapPut(m.positions, nodeID, off)]

GetPosition(m, nodeID) ==
    IF nodeID \in DOMAIN m.positions THEN m.positions[nodeID] ELSE ZeroOffset

\* Mutant: the entry is reset to the zero offset and kept.
ClearPositionZeroes(m, nodeID) ==
    [m EXCEPT !.positions = MapPut(m.positions, nodeID, ZeroOffset)]

ClearPosition(m, nodeID) ==
    [m EXCEPT !.positions = MapDelete(m.positions, nodeID)]

HasPositions(m) == DOMAIN m.positions # {}

\* Mutant: new bend points reset the edge's routing mode.
SetVerticesDropsRouting(m, edgeID, vs) ==
    IF Len(vs) = 0
    THEN [m EXCEPT !.vertices = MapDelete(m.vertices, NormalizeEdgeID(edgeID))]
    ELSE [m EXCEPT !.vertices = MapPut(m.vertices, NormalizeEdgeID(edgeID), vs),
                   !.routingMode = MapDelete(m.routingMode, NormalizeEdgeID(edgeID))]

\* Mutant: an empty list is stored like any other.
SetVerticesKeepsEmpty(m, edgeID, vs) ==
    [m EXCEPT !.vertices = MapPut(m.vertices, NormalizeEdgeID(edgeID), vs)]

SetVertices(m, edgeID, vs) ==
    IF Len(vs) = 0
    THEN [m EXCEPT !.vertices = MapDelete(m.vertices, NormalizeEdgeID(edgeID))]
    ELSE [m EXCEPT !.vertices = MapPut(m.vertices, NormalizeEdgeID(edgeID), vs)]

GetVertices(m, edgeID) ==
    IF NormalizeEdgeID(edgeID) \in DOMAIN m.vertices
    THEN m.vertices[NormalizeEdgeID(edgeID)] ELSE << >>

HasVertices(m) == DOMAIN m.vertices # {}

\* Mutant: "direct" is stored like any other mode.
SetRoutingModeStoresDefault(m, edgeID, mode) ==
    IF mode = ""
    THEN [m EXCEPT !.routingMode = MapDelete(m.routingMode, NormalizeEdgeID(edgeID))]
    ELSE [m EXCEPT !.routingMode = MapPut(m.routingMode, NormalizeEdgeID(edgeID), mode)]

SetRoutingMode(m, edgeID, mode) ==
    IF mode = "" \/ mode = "direct"
    THEN [m EXCEPT !.routingMode = MapDelete(m.routingMode, NormalizeEdgeID(edgeID))]
    ELSE [m EXCEPT !.routingMode = MapPut(m.routingMode, NormalizeEdgeID(edgeID), mode)]

GetRoutingMode(m, edgeID) ==
    IF NormalizeEdgeID(edgeID) \in DOMAIN m.routingMode
    THEN m.routingMode[NormalizeEdgeID(edgeID)] ELSE "direct"

HasRoutingModes(m) == DOMAIN m.routingMode # {}

\* Mutant: the default placement is stored like any other.
SetLabelPositionStoresDefault(m, edgeID, lp) ==
    [m EXCEPT !.labelPositions = MapPut(m.labelPositions, NormalizeEdgeID(edgeID), lp)]

SetLabelPosition(m, edgeID, lp) ==
    IF lp[1] = HalfDistance /\ lp[2] = 0 /\ lp[3] = 0
    THEN [m EXCEPT !.labelPositions = MapDelete(m.labelPositions, NormalizeEdgeID(edgeID))]
    ELSE [m EXCEPT !.labelPositions = MapPut(m.labelPositions, NormalizeEdgeID(edgeID), lp)]

GetLabelPosition(m, edgeID) ==
    IF NormalizeEdgeID(edgeID) \in DOMAIN m.labelPositions
    THEN m.labelPositions[NormalizeEdgeID(edgeID)] ELSE LabelDefault

HasLabelPositions(m) == DOMAIN m.labelPositions # {}

\* MetadataPath's file when it does not exist.
NoSidecar == [absent |-> TRUE]

\* Mutant: no omitempty.
MarshalKeysAll(m) ==
    {"version", "positions", "vertices", "routingMode", "labelPositions", "sourceHash"}

\* json.MarshalIndent of a Metadata: vertices, routingMode and
\* labelPositions carry omitempty, the other three keys are always written.
MarshalKeys(m) ==
    {"version", "positions", "sourceHash"}
        \cup (IF DOMAIN m.vertices # {} THEN {"vertices"} ELSE {})
        \cup (IF DOMAIN m.routingMode # {} THEN {"routingMode"} ELSE {})
        \cup (IF DOMAIN m.labelPositions # {} THEN {"labelPositions"} ELSE {})

\* The JSON object of one LabelPosition: distance is always written, offsetX
\* and offsetY carry omitempty and are left out when zero.
MarshalLabel(l) ==
    [k \in {"distance"} \cup (IF l[2] # 0 THEN {"offsetX"} ELSE {})
                        \cup (IF l[3] # 0 THEN {"offsetY"} ELSE {}) |->
        IF k = "distance" THEN l[1] ELSE IF k = "offsetX" THEN l[2] ELSE l[3]]

\* json.Unmarshal of one LabelPosition object: a key left out gives zero.
UnmarshalLabel(j) ==
    << IF "distance" \in DOMAIN j THEN j["distance"] ELSE 0,
       IF "offsetX" \in DOMAIN j THEN j["offsetX"] ELSE 0,
       IF "offsetY" \in DOMAIN j THEN j["offsetY"] ELSE 0 >>

MarshalValue(k, m) ==
    IF k = "labelPositions"
    THEN [id \in DOMAIN m[k] |-> MarshalLabel(m[k][id])]
    ELSE m[k]

Marshal(m) == [k \in MarshalKeys(m) |-> MarshalValue(k, m)]

\* A sidecar file whose content json.Unmarshal rejects, and the nil *Metadata
\* that LoadMetadata returns next to an error.
MalformedSidecar == [malformed |-> TRUE]

NoRecord == [nil |-> TRUE]

\* Mutant: a malformed file is not reported.
LoadMetadataErrorNever(file) == FALSE

\* LoadMetadata's error result: nil for an absent file (os.IsNotExist) and
\* for a file that parses, non-nil when json.Unmarshal fails.
LoadMetadataError(file) == file = MalformedSidecar

\* Mutant: only the positions are read back.
LoadMetadataPositionsOnly(file) ==
    IF file = NoSidecar THEN NewMetadata
    ELSE IF file = MalformedSidecar THEN NoRecord
    ELSE [version |-> IF "version" \in DOMAIN file THEN file["version"] ELSE 0,
          positions |-> IF "positions" \in DOMAIN file THEN file["positions"] ELSE EmptyMap,
          vertices |-> EmptyMap,
          routingMode |-> EmptyMap,
          labelPositions |-> EmptyMap,
          sourceHash |-> IF "sourceHash" \in DOMAIN file THEN file["sourceHash"] ELSE NoDigest]

\* LoadMetadata's *Metadata result: NewMetadata for an absent file, nil for a
\* malformed one, else json.Unmarshal into a zero Metadata followed by the
\* nil-map repairs.
LoadMetadata(file) ==
    IF file = NoSidecar THEN NewMetadata
    ELSE IF file = MalformedSidecar THEN NoRecord
    ELSE [version |-> IF "version" \in DOMAIN file THEN file["version"] ELSE 0,
          positions |-> IF "positions" \in DOMAIN file THEN file["positions"] ELSE EmptyMap,
          vertices |-> IF "vertices" \in DOMAIN file THEN file["vertices"] ELSE EmptyMap,
          routingMode |-> IF "routingMode" \in DOMAIN file THEN file["routingMode"] ELSE EmptyMap,
          labelPositions |-> IF "labelPositions" \in DOMAIN file
                             THEN [id \in DOMAIN file["labelPositions"] |->
                                      UnmarshalLabel(file["labelPositions"][id])]
                             ELSE EmptyMap,
          sourceHash |-> IF "sourceHash" \in DOMAIN file THEN file["sourceHash"] ELSE NoDigest]

\* ------------------------------------------------------------- server.go
\* GetMetadata: the copy it builds holds version, sourceHash and a copy of
\* the positions; its other maps are left nil.
GetMetadata(m) ==
    [version |-> m.version, sourceHash |-> m.sourceHash,
     positions |-> m.positions, vertices |-> EmptyMap,
     routingMode |-> EmptyMap, labelPositions |-> EmptyMap]

\* ------------------------------------------------------------ the state
VARIABLES
    filePath,          \* Server.FilePath: "" when no file is opened
    fileContent,       \* Server.fileContent, the cached text
    diskFile,          \* content of the backing .d2 file
    metadata,          \* Server.metadata, the live Record
    sidecar,           \* content of the .d2meta file
    diskOk,            \* file reads and writes succeed
    clients,           \* Server.clients, the registry
    connAlive,         \* per connection: the peer has not closed it
    pc,                \* per connection: where its handleWebSocket goroutine is
    cur,               \* per connection: the message being handled and the
                       \* bytes marshalled for its SaveMetadata
    inbox,             \* per connection: messages sent by the viewer, unread
    outbox,            \* per connection: every WriteJSON on it, in order
    nsent,             \* per connection: messages the viewer has sent
    fsEvent,           \* a write/create event for the file waits in watcher.Events
    timer,             \* the debounce timer: "off" or "armed"
    apc,               \* per handleFileChanged goroutine: where it is
    newContent,        \* per handleFileChanged goroutine: its newContent
    positionsCleared,  \* per handleFileChanged goroutine: its positionsCleared
    ops,               \* inputs taken so far
    hpc,               \* the handleFilePut goroutine: "idle" or "write"
    hbody,             \* the handleFilePut goroutine: req.Source
    probe              \* input and output of a direct call of ValidateAndClean

vars == <<filePath, fileContent, diskFile, metadata, sidecar, diskOk, clients,
          connAlive, pc, cur, inbox, outbox, nsent, fsEvent, timer, apc, newContent,
          positionsCleared, ops, hpc, hbody, probe>>

serverVars == <<filePath, fileContent, diskFile, metadata, sidecar, diskOk, clients,
          connAlive, pc, cur, inbox, outbox, nsent, fsEvent, timer, apc, newContent,
          positionsCleared, ops, hpc, hbody>>

watcherVars == <<fsEvent, timer, apc, newContent, positionsCleared>>

httpVars == <<hpc, hbody>>

\* ------------------------------------------------------------- messages
\* WSMessage as the viewer sends it; seq numbers the viewer's messages.
\* SaveMetadata's local `data` before json.MarshalIndent has run.
NoData == [none |-> TRUE]

\* A message as its handler holds it: the fields of WSMessage, its number,
\* and the bytes the handler's SaveMetadata has marshalled so far.
InMsg == [type |-> "", source |-> 0, nodeId |-> EmptyId, off |-> ZeroOffset,
          edgeId |-> EmptyId, vertices |-> << >>, routingMode |-> "",
          label |-> ZeroLabel, seq |-> 0, data |-> NoData]

NoMsg == [InMsg EXCEPT !.type = "none"]

ViewerMsgs ==
    {[InMsg EXCEPT !.type = "render", !.source = 1]}
    \cup {[InMsg EXCEPT !.type = "save", !.source = t] : t \in Texts}
    \cup {[InMsg EXCEPT !.type = "position", !.nodeId = NodeA, !.off = OffsetA],
          [InMsg EXCEPT !.type = "position", !.nodeId = NodeA, !.off = OffsetB],
          [InMsg EXCEPT !.type = "position", !.nodeId = NodeB, !.off = OffsetA],
          [InMsg EXCEPT !.type = "position", !.off = OffsetA]}
    \cup {[InMsg EXCEPT !.type = "vertices", !.edgeId = EdgeEscaped, !.vertices = VertexList],
          [InMsg EXCEPT !.type = "vertices", !.vertices = VertexList]}
    \cup {[InMsg EXCEPT !.type = "routing", !.edgeId = EdgePlain, !.routingMode = "orthogonal"],
          [InMsg EXCEPT !.type = "routing", !.routingMode = "orthogonal"]}
    \cup {[InMsg EXCEPT !.type = "label-position", !.edgeId = EdgePlain, !.label = LabelMoved],
          [InMsg EXCEPT !.type = "label-position", !.label = LabelMoved]}
    \cup {[InMsg EXCEPT !.type = "clear-positions"]}
    \cup {[InMsg EXCEPT !.type = "zoom"]}

KnownTypes == {"render", "save", "position", "vertices", "routing",
               "label-position", "clear-positions"}

\* WSMessage as the server writes it.  re is the seq of the request a reply
\* answers (0 for a push); failed records that WriteJSON returned an error.
OutMsg == [type |-> "", source |-> 0, error |-> "", nodeId |-> EmptyId,
           edgeId |-> EmptyId, routingMode |-> "", positions |-> EmptyMap,
           allVertices |-> EmptyMap, allRoutingMode |-> EmptyMap,
           allLabelPositions |-> EmptyMap, re |-> 0, failed |-> FALSE]

ErrorMsg(text, m) == [OutMsg EXCEPT !.type = "error", !.error = text, !.re = m.seq]

FileChangedMsg(source) == [OutMsg EXCEPT !.type = "file-changed", !.source = source]

PositionsClearedMsg == [OutMsg EXCEPT !.type = "positions-cleared"]

\* conn.WriteJSON(msg) on connection v: recorded, and failed when the peer is gone.
WriteJSON(ob, v, msg) ==
    [ob EXCEPT ![v] = Append(@, [msg EXCEPT !.failed = ~connAlive[v]])]

\* Mutant: the loop returns at the first failed write.
RECURSIVE BroadcastStopsOnError(_, _, _)
BroadcastStopsOnError(ob, conns, msg) ==
    IF conns = {} THEN ob
    ELSE LET v == CHOOSE x \in conns : \A y \in conns : x <= y
         IN IF connAlive[v]
            THEN BroadcastStopsOnError(WriteJSON(ob, v, msg), conns \ {v}, msg)
            ELSE WriteJSON(ob, v, msg)

\* broadcast's loop over s.clients, under clientsMu.RLock: a failed write is
\* skipped with continue.
RECURSIVE BroadcastLoop(_, _, _)
BroadcastLoop(ob, conns, msg) ==
    IF conns = {} THEN ob
    ELSE LET v == CHOOSE x \in conns : TRUE
         IN BroadcastLoop(WriteJSON(ob, v, msg), conns \ {v}, msg)

Broadcast(ob, msg) == BroadcastLoop(ob, clients, msg)

\* ---------------------------------------------------------------- Init
InitText == 1

\* Sidecar files found at startup: none, one written for the current text,
\* one written for another text.
InitSidecars ==
    {NoSidecar,
     Marshal([NewMetadata EXCEPT !.sourceHash = HashSource(InitText),
                                 !.positions = MapPut(EmptyMap, NodeA, OffsetA),
                                 !.vertices = MapPut(EmptyMap, EdgePlain, VertexList)]),
     Marshal([NewMetadata EXCEPT !.sourceHash = HashSource(InitText + 1),
                                 !.positions = MapPut(EmptyMap, NodeA, OffsetA)])}

NoProbe == [rec |-> NewMetadata, text |-> 0, out |-> NewMetadata,
            invalidated |-> FALSE, called |-> FALSE]

\* New(opts): the state once the server is constructed.
InitServer ==
    /\ filePath \in {"", "diagram.d2"}
    /\ IF filePath = ""
       THEN /\ fileContent = 0
            /\ diskFile = 0
            /\ metadata = NewMetadata
            /\ sidecar = NoSidecar
       ELSE /\ fileContent = InitText
            /\ diskFile = InitText
            /\ \E file \in InitSidecars :
                  /\ metadata = ValidateAndClean(LoadMetadata(file), InitText)
                  /\ sidecar = IF ValidateAndCleanResult(LoadMetadata(file), InitText)
                               THEN Marshal(ValidateAndClean(LoadMetadata(file), InitText))
                               ELSE file
    /\ diskOk = TRUE
    /\ clients = {}
    /\ connAlive = [v \in Viewers |-> FALSE]
    /\ pc = [v \in Viewers |-> "new"]
    /\ cur = [v \in Viewers |-> NoMsg]
    /\ inbox = [v \in Viewers |-> << >>]
    /\ outbox = [v \in Viewers |-> << >>]
    /\ nsent = [v \in Viewers |-> 0]
    /\ fsEvent = FALSE
    /\ timer = "off"
    /\ apc = [a \in Appliers |-> "idle"]
    /\ newContent = [a \in Appliers |-> 0]
    /\ positionsCleared = [a \in Appliers |-> FALSE]
    /\ ops = 0
    /\ hpc = "idle"
    /\ hbody = 0

Init == InitServer /\ probe = NoProbe

\* ------------------------------------------------------------- viewers
\* The viewer sends its next message on an open connection.
ViewerSend(v) ==
    /\ pc[v] \notin {"new", "closed"}
    /\ connAlive[v]
    /\ ops < MaxOps
    /\ \E m \in ViewerMsgs :
          inbox' = [inbox EXCEPT ![v] = Append(@, [m EXCEPT !.seq = nsent[v] + 1])]
    /\ nsent' = [nsent EXCEPT ![v] = @ + 1]
    /\ ops' = ops + 1
    /\ UNCHANGED <<filePath, diskOk, fileContent, diskFile, metadata, sidecar, clients,
                   connAlive, pc, cur, outbox, watcherVars, httpVars, probe>>

\* The viewer closes its connection, or the connection fails.
ViewerClose(v) ==
    /\ pc[v] \notin {"new", "closed"}
    /\ connAlive[v]
    /\ ops < MaxOps
    /\ connAlive' = [connAlive EXCEPT ![v] = FALSE]
    /\ ops' = ops + 1
    /\ UNCHANGED <<filePath, diskOk, fileContent, diskFile, metadata, sidecar, clients,
                   pc, cur, inbox, outbox, nsent, watcherVars, httpVars, probe>>

\* ------------------------------------------- handleWebSocket, one per viewer
\* Upgrade and registration in s.clients.  Connections are numbered in the
\* order they are opened.
Connect(v) ==
    /\ pc[v] = "new"
    /\ \A w \in Viewers : w < v => pc[w] # "new"
    /\ clients' = clients \cup {v}
    /\ connAlive' = [connAlive EXCEPT ![v] = TRUE]
    /\ pc' = [pc EXCEPT ![v] = "initContent"]
    /\ UNCHANGED <<filePath, diskOk, fileContent, diskFile, metadata, sidecar, cur, inbox,
                   outbox, nsent, watcherVars, ops, httpVars, probe>>

\* Mutant: the initial text is sent whether or not a file is opened.
InitialContentAlways(ob, v) == WriteJSON(ob, v, FileChangedMsg(fileContent))

\* "Send initial file content": the cached text, only with a file opened.
InitialContent(ob, v) ==
    IF filePath # ""
    THEN WriteJSON(ob, v, FileChangedMsg(fileContent))
    ELSE ob

\* handleWebSocket after the registration: the initial text.
SendInitialContent(v) ==
    /\ pc[v] = "initContent"
    /\ outbox' = InitialContent(outbox, v)
    /\ pc' = [pc EXCEPT ![v] = "initPositions"]
    /\ UNCHANGED <<filePath, diskOk, fileContent, diskFile, metadata, sidecar, clients,
                   connAlive, cur, inbox, nsent, watcherVars, ops, httpVars, probe>>

\* The consolidated snapshot built from a GetMetadata copy.
PositionsMsg(meta) ==
    [OutMsg EXCEPT !.type = "positions", !.positions = meta.positions,
                   !.allVertices = meta.vertices,
                   !.allRoutingMode = meta.routingMode,
                   !.allLabelPositions = meta.labelPositions]

\* "Send initial positions, vertices, routing modes, and label positions".
SendInitialPositions(v) ==
    /\ pc[v] = "initPositions"
    /\ LET meta == GetMetadata(metadata)
       IN outbox' = IF HasPositions(meta) \/ HasVertices(meta)
                        \/ HasRoutingModes(meta) \/ HasLabelPositions(meta)
                    THEN WriteJSON(outbox, v, PositionsMsg(meta))
                    ELSE outbox
    /\ pc' = [pc EXCEPT ![v] = "read"]
    /\ UNCHANGED <<filePath, diskOk, fileContent, diskFile, metadata, sidecar, clients,
                   connAlive, cur, inbox, nsent, watcherVars, ops, httpVars, probe>>

\* Mutant: the deferred cleanup empties the whole registry.
UnregisterAll(conns, v) == {}

\* The deferred delete(s.clients, conn).
Unregister(conns, v) == conns \ {v}

\* conn.ReadJSON fails on a closed connection: the loop breaks and the
\* deferred cleanup runs.
ReadError(v) ==
    /\ pc[v] = "read"
    /\ ~connAlive[v]
    /\ clients' = Unregister(clients, v)
    /\ pc' = [pc EXCEPT ![v] = "closed"]
    /\ inbox' = [inbox EXCEPT ![v] = << >>]
    /\ UNCHANGED <<filePath, diskOk, fileContent, diskFile, metadata, sidecar, connAlive,
                   cur, outbox, nsent, watcherVars, ops, httpVars, probe>>

\* Mutant: ReadJSON hands over the newest unread message.
NextMessageNewest(q) == q[Len(q)]

\* conn.ReadJSON hands over the oldest unread message.
NextMessage(q) == Head(q)

Reading(v, type) ==
    /\ pc[v] = "read"
    /\ inbox[v] # << >>
    /\ NextMessage(inbox[v]).type = type

\* The unread messages once NextMessage has been taken.
Rest(q) == LET m == NextMessage(q)
           IN IF m = Head(q) THEN Tail(q) ELSE SubSeq(q, 1, Len(q) - 1)

\* Mutant: a render error is broadcast.
RenderReplyToAll(ob, v, msg, ok) ==
    IF ok
    THEN WriteJSON(ob, v, [OutMsg EXCEPT !.type = "rendered", !.re = msg.seq])
    ELSE Broadcast(ob, ErrorMsg("compile error", msg))

\* The reply of case "render": "rendered" with the SVG when renderD2 returned
\* no error, else "error" with err.Error(), on the sender's connection.
RenderReply(ob, v, msg, ok) ==
    IF ok
    THEN WriteJSON(ob, v, [OutMsg EXCEPT !.type = "rendered", !.re = msg.seq])
    ELSE WriteJSON(ob, v, ErrorMsg("compile error", msg))

\* case "render": renderD2 succeeds, or fails (compile error or timeout).
HandleRender(v) ==
    /\ Reading(v, "render")
    /\ LET msg == NextMessage(inbox[v])
       IN \E ok \in BOOLEAN : outbox' = RenderReply(outbox, v, msg, ok)
    /\ inbox' = [inbox EXCEPT ![v] = Rest(@)]
    /\ UNCHANGED <<filePath, diskOk, fileContent, diskFile, metadata, sidecar, clients,
                   connAlive, pc, cur, nsent, watcherVars, ops, httpVars, probe>>

\* case "save", up to SetFileContent.
HandleSave(v) ==
    /\ Reading(v, "save")
    /\ LET msg == NextMessage(inbox[v])
       IN IF filePath = ""
          THEN /\ outbox' = WriteJSON(outbox, v, ErrorMsg("No file opened", msg))
               /\ UNCHANGED <<fileContent, pc, cur>>
          ELSE /\ fileContent' = msg.source
               /\ pc' = [pc EXCEPT ![v] = "saveWrite"]
               /\ cur' = [cur EXCEPT ![v] = msg]
               /\ UNCHANGED outbox
    /\ inbox' = [inbox EXCEPT ![v] = Rest(@)]
    /\ UNCHANGED <<filePath, diskOk, diskFile, metadata, sidecar, clients, connAlive,
                   nsent, watcherVars, ops, httpVars, probe>>

\* Mutant: "saved" whatever os.WriteFile returned.
SaveReplyAlwaysSaved(ob, v, msg, ok) ==
    WriteJSON(ob, v, [OutMsg EXCEPT !.type = "saved", !.re = msg.seq])

\* The reply of case "save": "saved" when os.WriteFile returned no error,
\* else "error".
SaveReply(ob, v, msg, ok) ==
    IF ok
    THEN WriteJSON(ob, v, [OutMsg EXCEPT !.type = "saved", !.re = msg.seq])
    ELSE WriteJSON(ob, v, ErrorMsg("Failed to save file", msg))

\* case "save", os.WriteFile of the backing file and the reply.
SaveWrite(v) ==
    /\ pc[v] = "saveWrite"
    /\ IF diskOk
       THEN /\ diskFile' = cur[v].source
            /\ fsEvent' = TRUE
       ELSE UNCHANGED <<diskFile, fsEvent>>
    /\ outbox' = SaveReply(outbox, v, cur[v], diskOk)
    /\ pc' = [pc EXCEPT ![v] = "read"]
    /\ cur' = [cur EXCEPT ![v] = NoMsg]
    /\ UNCHANGED <<filePath, diskOk, fileContent, metadata, sidecar, clients, connAlive,
                   inbox, nsent, timer, apc, newContent, positionsCleared, ops,
                   httpVars, probe>>

\* The identifier an override message must carry.
TargetId(msg) == IF msg.type = "position" THEN msg.nodeId ELSE msg.edgeId

RequiredError(msg) ==
    IF msg.type = "position" THEN "nodeId is required" ELSE "edgeId is required"

\* Server.SetNodePosition, its part under metadataMu.
ServerSetNodePosition(m, msg) == SetPosition(m, msg.nodeId, msg.off)

\* Server.SetEdgeVertices, Server.SetRoutingMode, Server.SetLabelPosition:
\* the Store mutation under metadataMu, as SetNodePosition does it.
ServerSetEdgeVertices(m, msg) == SetVertices(m, msg.edgeId, msg.vertices)

ServerSetRoutingMode(m, msg) == SetRoutingMode(m, msg.edgeId, msg.routingMode)

ServerSetLabelPosition(m, msg) == SetLabelPosition(m, msg.edgeId, msg.label)

\* Mutant: the Store is mutated before the identifier is checked.
OverrideRejectedAfterMutation(v, msg) ==
    /\ outbox' = WriteJSON(outbox, v, ErrorMsg(RequiredError(msg), msg))
    /\ metadata' = ServerSetNodePosition(metadata, msg)
    /\ UNCHANGED <<pc, cur>>

\* The branch of an override case taken for an empty identifier: the error
\* reply, then continue.
OverrideRejected(v, msg) ==
    /\ outbox' = WriteJSON(outbox, v, ErrorMsg(RequiredError(msg), msg))
    /\ UNCHANGED <<metadata, pc, cur>>

\* The rest of an override case: the Store mutation of the Server method;
\* its SaveMetadata and the reply follow in Persist.
OverrideAccepted(v, msg, m) ==
    /\ metadata' = m
    /\ pc' = [pc EXCEPT ![v] = "persist"]
    /\ cur' = [cur EXCEPT ![v] = msg]
    /\ UNCHANGED outbox

\* case "position"
HandlePosition(v) ==
    /\ Reading(v, "position")
    /\ LET msg == NextMessage(inbox[v])
       IN IF msg.nodeId = EmptyId
          THEN OverrideRejected(v, msg)
          ELSE OverrideAccepted(v, msg, ServerSetNodePosition(metadata, msg))
    /\ inbox' = [inbox EXCEPT ![v] = Rest(@)]
    /\ UNCHANGED <<filePath, diskOk, fileContent, diskFile, sidecar, clients, connAlive,
                   nsent, watcherVars, ops, httpVars, probe>>

\* case "vertices"
HandleVertices(v) ==
    /\ Reading(v, "vertices")
    /\ LET msg == NextMessage(inbox[v])
       IN IF msg.edgeId = EmptyId
          THEN OverrideRejected(v, msg)
          ELSE OverrideAccepted(v, msg, ServerSetEdgeVertices(metadata, msg))
    /\ inbox' = [inbox EXCEPT ![v] = Rest(@)]
    /\ UNCHANGED <<filePath, diskOk, fileContent, diskFile, sidecar, clients, connAlive,
                   nsent, watcherVars, ops, httpVars, probe>>

\* case "routing"
HandleRouting(v) ==
    /\ Reading(v, "routing")
    /\ LET msg == NextMessage(inbox[v])
       IN IF msg.edgeId = EmptyId
          THEN OverrideRejected(v, msg)
          ELSE OverrideAccepted(v, msg, ServerSetRoutingMode(metadata, msg))
    /\ inbox' = [inbox EXCEPT ![v] = Rest(@)]
    /\ UNCHANGED <<filePath, diskOk, fileContent, diskFile, sidecar, clients, connAlive,
                   nsent, watcherVars, ops, httpVars, probe>>

\* case "label-position"
HandleLabelPosition(v) ==
    /\ Reading(v, "label-position")
    /\ LET msg == NextMessage(inbox[v])
       IN IF msg.edgeId = EmptyId
          THEN OverrideRejected(v, msg)
          ELSE OverrideAccepted(v, msg, ServerSetLabelPosition(metadata, msg))
    /\ inbox' = [inbox EXCEPT ![v] = Rest(@)]
    /\ UNCHANGED <<filePath, diskOk, fileContent, diskFile, sidecar, clients, connAlive,
                   nsent, watcherVars, ops, httpVars, probe>>

\* Server.ClearAllPositions, its part under metadataMu.
ServerClearAllPositions(m) == [m EXCEPT !.positions = EmptyMap]

\* case "clear-positions"
HandleClearPositions(v) ==
    /\ Reading(v, "clear-positions")
    /\ metadata' = ServerClearAllPositions(metadata)
    /\ pc' = [pc EXCEPT ![v] = "persist"]
    /\ cur' = [cur EXCEPT ![v] = NextMessage(inbox[v])]
    /\ inbox' = [inbox EXCEPT ![v] = Rest(@)]
    /\ UNCHANGED <<filePath, diskOk, fileContent, diskFile, sidecar, clients, connAlive,
                   outbox, nsent, watcherVars, ops, httpVars, probe>>

\* Mutant: the acknowledgment does not name the node or edge.
AckMsgWithoutId(msg) ==
    CASE msg.type = "position" -> [OutMsg EXCEPT !.type = "position-saved", !.re = msg.seq]
      [] msg.type = "vertices" -> [OutMsg EXCEPT !.type = "vertices-saved", !.re = msg.seq]
      [] msg.type = "routing" ->
            [OutMsg EXCEPT !.type = "routing-saved", !.routingMode = msg.routingMode,
                           !.re = msg.seq]
      [] OTHER -> [OutMsg EXCEPT !.type = "label-position-saved", !.re = msg.seq]

\* The acknowledgment of an override message.
AckMsg(msg) ==
    CASE msg.type = "position" ->
            [OutMsg EXCEPT !.type = "position-saved", !.nodeId = msg.nodeId, !.re = msg.seq]
      [] msg.type = "vertices" ->
            [OutMsg EXCEPT !.type = "vertices-saved", !.edgeId = msg.edgeId, !.re = msg.seq]
      [] msg.type = "routing" ->
            [OutMsg EXCEPT !.type = "routing-saved", !.edgeId = msg.edgeId,
                           !.routingMode = msg.routingMode, !.re = msg.seq]
      [] OTHER ->
            [OutMsg EXCEPT !.type = "label-position-saved", !.edgeId = msg.edgeId, !.re = msg.seq]

SaveFailedText(msg) ==
    CASE msg.type = "position" -> "Failed to save position"
      [] msg.type = "vertices" -> "Failed to save vertices"
      [] msg.type = "routing" -> "Failed to save routing mode"
      [] msg.type = "label-position" -> "Failed to save label position"
      [] OTHER -> "Failed to clear positions"

\* The second half of a Server mutator, after metadataMu is released, when a
\* file is opened: SaveMetadata's json.MarshalIndent of the live Record, with
\* no lock held.
PersistMarshal(v) ==
    /\ pc[v] = "persist"
    /\ filePath # ""
    /\ diskOk
    /\ cur[v].data = NoData
    /\ cur' = [cur EXCEPT ![v].data = Marshal(metadata)]
    /\ UNCHANGED <<filePath, diskOk, fileContent, diskFile, metadata, sidecar, clients,
                   connAlive, pc, inbox, outbox, nsent, watcherVars, ops, httpVars,
                   probe>>

\* SaveMetadata's os.WriteFile of the marshalled bytes (nothing is written
\* with no file opened), then the handler's reply (or, for clear-positions,
\* the broadcast that follows in ClearBroadcast).
Persist(v) ==
    /\ pc[v] = "persist"
    /\ filePath = "" \/ ~diskOk \/ cur[v].data # NoData
    /\ IF filePath = "" \/ diskOk
       THEN /\ sidecar' = IF filePath # "" THEN cur[v].data ELSE sidecar
            /\ IF cur[v].type = "clear-positions"
               THEN /\ pc' = [pc EXCEPT ![v] = "clearBroadcast"]
                    /\ UNCHANGED <<outbox, cur>>
               ELSE /\ outbox' = WriteJSON(outbox, v, AckMsg(cur[v]))
                    /\ pc' = [pc EXCEPT ![v] = "read"]
                    /\ cur' = [cur EXCEPT ![v] = NoMsg]
       ELSE /\ outbox' = WriteJSON(outbox, v, ErrorMsg(SaveFailedText(cur[v]), cur[v]))
            /\ pc' = [pc EXCEPT ![v] = "read"]
            /\ cur' = [cur EXCEPT ![v] = NoMsg]
            /\ UNCHANGED sidecar
    /\ UNCHANGED <<filePath, diskOk, fileContent, diskFile, metadata, clients, connAlive,
                   inbox, nsent, watcherVars, ops, httpVars, probe>>

\* case "clear-positions": s.broadcast("positions-cleared").
ClearBroadcast(v) ==
    /\ pc[v] = "clearBroadcast"
    /\ outbox' = Broadcast(outbox, PositionsClearedMsg)
    /\ pc' = [pc EXCEPT ![v] = "read"]
    /\ cur' = [cur EXCEPT ![v] = NoMsg]
    /\ UNCHANGED <<filePath, diskOk, fileContent, diskFile, metadata, sidecar, clients,
                   connAlive, inbox, nsent, watcherVars, ops, httpVars, probe>>

\* Mutant: a default case answering with an error.
UnknownKindReplyError(v, msg) == WriteJSON(outbox, v, ErrorMsg("unknown message type", msg))

\* What the switch writes for a msg.Type it has no case for: nothing.
UnknownKindReply(v, msg) == outbox

\* A message of a type the switch has no case for.
HandleUnknown(v) ==
    /\ pc[v] = "read"
    /\ inbox[v] # << >>
    /\ NextMessage(inbox[v]).type \notin KnownTypes
    /\ outbox' = UnknownKindReply(v, NextMessage(inbox[v]))
    /\ inbox' = [inbox EXCEPT ![v] = Rest(@)]
    /\ UNCHANGED <<filePath, diskOk, fileContent, diskFile, metadata, sidecar, clients,
                   connAlive, pc, cur, nsent, watcherVars, ops, httpVars, probe>>

\* ------------------------------------------------------ handleFilePut
\* PUT /api/file, up to SetFileContent.
FilePutUpdate ==
    /\ filePath # ""
    /\ hpc = "idle"
    /\ ops < MaxOps
    /\ \E t \in Texts :
          /\ fileContent' = t
          /\ hbody' = t
    /\ hpc' = "write"
    /\ ops' = ops + 1
    /\ UNCHANGED <<filePath, diskOk, diskFile, metadata, sidecar, clients, connAlive, pc,
                   cur, inbox, outbox, nsent, watcherVars, probe>>

\* PUT /api/file, os.WriteFile of the backing file.
FilePutWrite ==
    /\ hpc = "write"
    /\ IF diskOk
       THEN /\ diskFile' = hbody
            /\ fsEvent' = TRUE
       ELSE UNCHANGED <<diskFile, fsEvent>>
    /\ hpc' = "idle"
    /\ hbody' = 0
    /\ UNCHANGED <<filePath, diskOk, fileContent, metadata, sidecar, clients, connAlive, pc,
                   cur, inbox, outbox, nsent, timer, apc, newContent,
                   positionsCleared, ops, probe>>

\* ------------------------------------------------------------ watcher
\* The file system starts failing reads and writes.
DiskFault ==
    /\ filePath # ""
    /\ diskOk
    /\ ops < MaxOps
    /\ diskOk' = FALSE
    /\ ops' = ops + 1
    /\ UNCHANGED <<filePath, fileContent, diskFile, metadata, sidecar, clients,
                   connAlive, pc, cur, inbox, outbox, nsent, watcherVars, httpVars,
                   probe>>

\* Another program writes the backing file.
ExternalEdit ==
    /\ filePath # ""
    /\ diskOk
    /\ ops < MaxOps
    /\ \E t \in Texts : diskFile' = t
    /\ fsEvent' = TRUE
    /\ ops' = ops + 1
    /\ UNCHANGED <<filePath, diskOk, fileContent, metadata, sidecar, clients, connAlive, pc,
                   cur, inbox, outbox, nsent, timer, apc, newContent,
                   positionsCleared, httpVars, probe>>

\* Events fsnotify delivers for the watched directory: the file and its
\* sidecar live there.
FsEvents ==
    {[name |-> n, op |-> o] : n \in {"diagram.d2", "diagram.d2meta"},
                              o \in {"write", "create", "chmod", "remove"}}

\* Mutant: the event's path is not compared.
RelevantAnyPath(e) == e.op \in {"write", "create"}

\* watchFileChanges: "Only care about our file", "Only care about write events".
Relevant(e) == e.name = filePath /\ e.op \in {"write", "create"}

\* watchFileChanges on one event: the timer is stopped and started anew, or
\* the event is skipped with continue.
Debounce(t, e) == IF Relevant(e) THEN "armed" ELSE t

\* watchFileChanges: a write/create event for the file (re)starts the timer.
WatchEvent ==
    /\ fsEvent
    /\ fsEvent' = FALSE
    /\ \E e \in {x \in FsEvents : x.name = "diagram.d2" /\ x.op \in {"write", "create"}} :
          timer' = Debounce(timer, e)
    /\ UNCHANGED <<filePath, diskOk, fileContent, diskFile, metadata, sidecar, clients,
                   connAlive, pc, cur, inbox, outbox, nsent, apc, newContent,
                   positionsCleared, ops, httpVars, probe>>

\* watchFileChanges: an event for the sidecar, or a chmod or remove of the
\* file, arrives.
WatchOtherEvent ==
    /\ filePath # ""
    /\ ops < MaxOps
    /\ ops' = ops + 1
    /\ \E e \in {x \in FsEvents : x.name # "diagram.d2" \/ x.op \in {"chmod", "remove"}} :
          timer' = Debounce(timer, e)
    /\ UNCHANGED <<filePath, diskOk, fileContent, diskFile, metadata, sidecar, clients,
                   connAlive, pc, cur, inbox, outbox, nsent, fsEvent, apc, newContent,
                   positionsCleared, httpVars, probe>>

\* The timer expires: time.AfterFunc runs handleFileChanged in a goroutine.
TimerFire ==
    /\ timer = "armed"
    /\ timer' = "off"
    /\ \E a \in Appliers :
          /\ apc[a] = "idle"
          /\ apc' = [apc EXCEPT ![a] = "readFile"]
    /\ UNCHANGED <<filePath, diskOk, fileContent, diskFile, metadata, sidecar, clients,
                   connAlive, pc, cur, inbox, outbox, nsent, fsEvent, newContent,
                   positionsCleared, ops, httpVars, probe>>

\* Mutant: the error of os.ReadFile is dropped.
AfterReadIgnoresError(ok) == "compare"

\* handleFileChanged: where it goes after os.ReadFile; on an error it returns.
AfterRead(ok) == IF ok THEN "compare" ELSE "idle"

\* handleFileChanged: os.ReadFile; a failure is logged and the step ends.
ApplyReadFile(a) ==
    /\ apc[a] = "readFile"
    /\ newContent' = IF diskOk THEN [newContent EXCEPT ![a] = diskFile] ELSE newContent
    /\ apc' = [apc EXCEPT ![a] = AfterRead(diskOk)]
    /\ UNCHANGED <<filePath, diskOk, fileContent, diskFile, metadata, sidecar, clients,
                   connAlive, pc, cur, inbox, outbox, nsent, fsEvent, timer,
                   positionsCleared, ops, httpVars, probe>>

\* Mutant: every timer expiry counts as a change.
ChangedAlways(new, cached) == TRUE

\* handleFileChanged: changed := newContent != s.fileContent
Changed(new, cached) == new # cached

\* handleFileChanged: "Check if content actually changed".
ApplyCompare(a) ==
    /\ apc[a] = "compare"
    /\ apc' = [apc EXCEPT ![a] = IF Changed(newContent[a], fileContent)
                                 THEN "update" ELSE "idle"]
    /\ newContent' = [newContent EXCEPT ![a] = IF Changed(newContent[a], fileContent)
                                               THEN @ ELSE 0]
    /\ UNCHANGED <<filePath, diskOk, fileContent, diskFile, metadata, sidecar, clients,
                   connAlive, pc, cur, inbox, outbox, nsent, fsEvent, timer,
                   positionsCleared, ops, httpVars, probe>>

\* handleFileChanged: "Update cached content".
ApplyUpdate(a) ==
    /\ apc[a] = "update"
    /\ fileContent' = newContent[a]
    /\ apc' = [apc EXCEPT ![a] = "validate"]
    /\ UNCHANGED <<filePath, diskOk, diskFile, metadata, sidecar, clients, connAlive, pc,
                   cur, inbox, outbox, nsent, fsEvent, timer, newContent,
                   positionsCleared, ops, httpVars, probe>>

\* handleFileChanged: ValidateAndClean under metadataMu and, when it cleared,
\* SaveMetadata, whose error is dropped.
ApplyValidate(a) ==
    /\ apc[a] = "validate"
    /\ positionsCleared' = [positionsCleared EXCEPT
                               ![a] = ValidateAndCleanResult(metadata, newContent[a])]
    /\ metadata' = ValidateAndClean(metadata, newContent[a])
    /\ sidecar' = IF ValidateAndCleanResult(metadata, newContent[a]) /\ diskOk
                  THEN Marshal(ValidateAndClean(metadata, newContent[a]))
                  ELSE sidecar
    /\ apc' = [apc EXCEPT ![a] = "broadcastFile"]
    /\ UNCHANGED <<filePath, diskOk, fileContent, diskFile, clients, connAlive, pc, cur,
                   inbox, outbox, nsent, fsEvent, timer, newContent, ops,
                   httpVars, probe>>

\* handleFileChanged: "If positions were cleared, notify clients".
AfterFileChanged(cleared) == IF cleared THEN "broadcastCleared" ELSE "idle"

\* handleFileChanged: broadcast of "file-changed".
ApplyBroadcastFile(a) ==
    /\ apc[a] = "broadcastFile"
    /\ outbox' = Broadcast(outbox, FileChangedMsg(newContent[a]))
    /\ apc' = [apc EXCEPT ![a] = AfterFileChanged(positionsCleared[a])]
    /\ newContent' = [newContent EXCEPT ![a] = IF positionsCleared[a] THEN @ ELSE 0]
    /\ UNCHANGED <<filePath, diskOk, fileContent, diskFile, metadata, sidecar, clients,
                   connAlive, pc, cur, inbox, nsent, fsEvent, timer,
                   positionsCleared, ops, httpVars, probe>>

\* handleFileChanged: broadcast of "positions-cleared".
ApplyBroadcastCleared(a) ==
    /\ apc[a] = "broadcastCleared"
    /\ outbox' = Broadcast(outbox, PositionsClearedMsg)
    /\ apc' = [apc EXCEPT ![a] = "idle"]
    /\ newContent' = [newContent EXCEPT ![a] = 0]
    /\ positionsCleared' = [positionsCleared EXCEPT ![a] = FALSE]
    /\ UNCHANGED <<filePath, diskOk, fileContent, diskFile, metadata, sidecar, clients,
                   connAlive, pc, cur, inbox, nsent, fsEvent, timer, ops,
                   httpVars, probe>>

\* ---------------------------------------------------------------- Next
Next ==
    \/ \E v \in Viewers : ViewerSend(v)
    \/ \E v \in Viewers : ViewerClose(v)
    \/ \E v \in Viewers : Connect(v)
    \/ \E v \in Viewers : SendInitialContent(v)
    \/ \E v \in Viewers : SendInitialPositions(v)
    \/ \E v \in Viewers : ReadError(v)
    \/ \E v \in Viewers : HandleRender(v)
    \/ \E v \in Viewers : HandleSave(v)
    \/ \E v \in Viewers : SaveWrite(v)
    \/ \E v \in Viewers : HandlePosition(v)
    \/ \E v \in Viewers : HandleVertices(v)
    \/ \E v \in Viewers : HandleRouting(v)
    \/ \E v \in Viewers : HandleLabelPosition(v)
    \/ \E v \in Viewers : HandleClearPositions(v)
    \/ \E v \in Viewers : PersistMarshal(v)
    \/ \E v \in Viewers : Persist(v)
    \/ \E v \in Viewers : ClearBroadcast(v)
    \/ \E v \in Viewers : HandleUnknown(v)
    \/ FilePutUpdate
    \/ FilePutWrite
    \/ ExternalEdit
    \/ DiskFault
    \/ WatchEvent
    \/ WatchOtherEvent
    \/ TimerFire
    \/ \E a \in Appliers : ApplyReadFile(a)
    \/ \E a \in Appliers : ApplyCompare(a)
    \/ \E a \in Appliers : ApplyUpdate(a)
    \/ \E a \in Appliers : ApplyValidate(a)
    \/ \E a \in Appliers : ApplyBroadcastFile(a)
    \/ \E a \in Appliers : ApplyBroadcastCleared(a)

Spec == Init /\ [][Next]_vars

\* ------------------------------------------- the session as the only writer
\* The server with no other program writing the backing file: every content
\* the file takes after startup is written by a save or by PUT /api/file.
NextOwnWrites ==
    \/ \E v \in Viewers : ViewerSend(v)
    \/ \E v \in Viewers : ViewerClose(v)
    \/ \E v \in Viewers : Connect(v)
    \/ \E v \in Viewers : SendInitialContent(v)
    \/ \E v \in Viewers : SendInitialPositions(v)
    \/ \E v \in Viewers : ReadError(v)
    \/ \E v \in Viewers : HandleRender(v)
    \/ \E v \in Viewers : HandleSave(v)
    \/ \E v \in Viewers : SaveWrite(v)
    \/ \E v \in Viewers : HandlePosition(v)
    \/ \E v \in Viewers : HandleVertices(v)
    \/ \E v \in Viewers : HandleRouting(v)
    \/ \E v \in Viewers : HandleLabelPosition(v)
    \/ \E v \in Viewers : HandleClearPositions(v)
    \/ \E v \in Viewers : PersistMarshal(v)
    \/ \E v \in Viewers : Persist(v)
    \/ \E v \in Viewers : ClearBroadcast(v)
    \/ \E v \in Viewers : HandleUnknown(v)
    \/ FilePutUpdate
    \/ FilePutWrite
    \/ DiskFault
    \/ WatchEvent
    \/ WatchOtherEvent
    \/ TimerFire
    \/ \E a \in Appliers : ApplyReadFile(a)
    \/ \E a \in Appliers : ApplyCompare(a)
    \/ \E a \in Appliers : ApplyUpdate(a)
    \/ \E a \in Appliers : ApplyValidate(a)
    \/ \E a \in Appliers : ApplyBroadcastFile(a)
    \/ \E a \in Appliers : ApplyBroadcastCleared(a)

SpecOwnWrites == Init /\ [][NextOwnWrites]_vars

\* ------------------------------------------- ValidateAndClean called directly
ProbePositions ==
    {EmptyMap, MapPut(EmptyMap, NodeA, OffsetA), MapPut(EmptyMap, NodeB, OffsetB),
     MapPut(MapPut(EmptyMap, NodeA, OffsetB), NodeB, OffsetA)}

ProbeRecords ==
    {[NewMetadata EXCEPT !.sourceHash = HashSource(t1), !.positions = p,
                         !.vertices = vs, !.routingMode = r, !.labelPositions = l] :
        t1 \in Texts, p \in ProbePositions,
        vs \in {EmptyMap, MapPut(EmptyMap, EdgePlain, VertexList)},
        r \in {EmptyMap, MapPut(EmptyMap, EdgePlain, "orthogonal")},
        l \in {EmptyMap, MapPut(EmptyMap, EdgePlain, LabelMoved)}}

InitReconcile ==
    /\ InitServer
    /\ filePath = ""
    /\ \E r \in ProbeRecords, t \in Texts :
          probe = [rec |-> r, text |-> t, out |-> r, invalidated |-> FALSE,
                   called |-> FALSE]

\* m.ValidateAndClean(currentSource) on the drawn Record and text.
Reconcile ==
    /\ ~probe.called
    /\ probe' = [probe EXCEPT !.out = ValidateAndClean(probe.rec, probe.text),
                              !.invalidated = ValidateAndCleanResult(probe.rec, probe.text),
                              !.called = TRUE]
    /\ UNCHANGED serverVars

NextReconcile == Reconcile

SpecReconcile == InitReconcile /\ [][NextReconcile]_vars

\* ------------------------------------------ Metadata methods called directly
\* The arguments the methods are called with.
StoreNodes == {NodeA, NodeB, NodeEscaped}

StoreOffsets == {OffsetA, OffsetB}

StoreEdges == {EdgePlain, EdgeEscaped, EdgeOther}

StoreVertexLists == {<< >>, VertexList, VertexListB}

StoreModes == {"", "direct", "orthogonal", "curved"}

StoreLabels == {LabelDefault, LabelMoved, ZeroLabel}

NoCall == [op |-> "none", id |-> EmptyId, val |-> 0]

\* probe in this specification: the latest call (its method, identifier and
\* value argument or result), the call before it, the Record before the
\* latest call, the Record before the call before it, and the latest copy
\* GetMetadata returned.
InitStore ==
    /\ InitServer
    /\ filePath = ""
    /\ probe = [call |-> NoCall, prev |-> NoCall, before |-> NewMetadata,
                before2 |-> NewMetadata, copy |-> NewMetadata]

\* One method call on the Record: m is the Record it leaves, val its value
\* argument (for a getter, its result).
StoreCall(op, id, val, m) ==
    /\ ops < MaxCalls
    /\ ops' = ops + 1
    /\ metadata' = m
    /\ probe' = [probe EXCEPT !.call = [op |-> op, id |-> id, val |-> val],
                              !.prev = probe.call,
                              !.before = metadata,
                              !.before2 = probe.before]
    /\ UNCHANGED <<filePath, fileContent, diskFile, sidecar, diskOk, clients, connAlive,
                   pc, cur, inbox, outbox, nsent, watcherVars, httpVars>>

CallSetPosition ==
    \E id \in StoreNodes, off \in StoreOffsets :
        StoreCall("SetPosition", id, off, SetPosition(metadata, id, off))

CallClearPosition ==
    \E id \in StoreNodes : StoreCall("ClearPosition", id, 0, ClearPosition(metadata, id))

CallSetVertices ==
    \E id \in StoreEdges, vs \in StoreVertexLists :
        StoreCall("SetVertices", id, vs, SetVertices(metadata, id, vs))

CallSetRoutingMode ==
    \E id \in StoreEdges, mode \in StoreModes :
        StoreCall("SetRoutingMode", id, mode, SetRoutingMode(metadata, id, mode))

CallSetLabelPosition ==
    \E id \in StoreEdges, lp \in StoreLabels :
        StoreCall("SetLabelPosition", id, lp, SetLabelPosition(metadata, id, lp))

CallGetPosition ==
    \E id \in StoreNodes :
        StoreCall("GetPosition", id, GetPosition(metadata, id), metadata)

CallGetVertices ==
    \E id \in StoreEdges :
        StoreCall("GetVertices", id, GetVertices(metadata, id), metadata)

CallGetRoutingMode ==
    \E id \in StoreEdges :
        StoreCall("GetRoutingMode", id, GetRoutingMode(metadata, id), metadata)

CallGetLabelPosition ==
    \E id \in StoreEdges :
        StoreCall("GetLabelPosition", id, GetLabelPosition(metadata, id), metadata)

\* Server.GetMetadata on the Record: the copy is kept.
CallGetMetadata ==
    /\ ops < MaxCalls
    /\ ops' = ops + 1
    /\ probe' = [probe EXCEPT !.call = [op |-> "GetMetadata", id |-> EmptyId, val |-> 0],
                              !.prev = probe.call,
                              !.before = metadata,
                              !.before2 = probe.before,
                              !.copy = GetMetadata(metadata)]
    /\ UNCHANGED <<filePath, fileContent, diskFile, metadata, sidecar, diskOk, clients,
                   connAlive, pc, cur, inbox, outbox, nsent, watcherVars, httpVars>>

NextStore ==
    \/ CallSetPosition
    \/ CallClearPosition
    \/ CallSetVertices
    \/ CallSetRoutingMode
    \/ CallSetLabelPosition
    \/ CallGetPosition
    \/ CallGetVertices
    \/ CallGetRoutingMode
    \/ CallGetLabelPosition
    \/ CallGetMetadata

SpecStore == InitStore /\ [][NextStore]_vars

\* --------------------------------- sidecar functions and New called directly
\* New(opts) on a source file with text `text` whose sidecar is `file`:
\* whether it returns an error, the Record of the Server it returns, and the
\* sidecar it leaves behind (it is rewritten only when ValidateAndClean
\* reports an invalidation).
NewFails(file) == LoadMetadataError(file)

\* Mutant: the loaded Record is used as it is.
NewRecordUnvalidated(file, text) == LoadMetadata(file)

NewRecord(file, text) == ValidateAndClean(LoadMetadata(file), text)

NewSidecar(file, text) ==
    IF ValidateAndCleanResult(LoadMetadata(file), text)
    THEN Marshal(NewRecord(file, text))
    ELSE file

\* Records handed to SaveMetadata.
FileRecords ==
    ProbeRecords
        \cup {NewMetadata,
              [NewMetadata EXCEPT !.version = 2,
                                  !.labelPositions =
                                      MapPut(MapPut(EmptyMap, EdgePlain, ZeroLabel),
                                             EdgeOther, LabelMoved)]}

\* Sidecar files found on disk: none, an unparseable one, two that parse
\* but leave keys out, and files written earlier by SaveMetadata.
FileSidecars ==
    InitSidecars
        \cup {MalformedSidecar,
              [version |-> 1],
              [positions |-> MapPut(EmptyMap, NodeB, OffsetB),
               sourceHash |-> HashSource(InitText)],
              Marshal([NewMetadata EXCEPT
                          !.sourceHash = HashSource(0),
                          !.positions = MapPut(EmptyMap, NodeA, OffsetA),
                          !.vertices = MapPut(EmptyMap, EdgePlain, VertexList),
                          !.routingMode = MapPut(EmptyMap, EdgePlain, "orthogonal"),
                          !.labelPositions = MapPut(EmptyMap, EdgePlain, LabelMoved)])}

NoFileCall == [op |-> "none", prev |-> "none", file |-> NoSidecar, rec |-> NoRecord,
               out |-> NoRecord, err |-> FALSE]

InitFile ==
    /\ filePath \in {"", "diagram.d2"}
    /\ diskFile \in Texts
    /\ fileContent = 0
    /\ metadata \in FileRecords
    /\ sidecar \in FileSidecars
    /\ diskOk = TRUE
    /\ clients = {}
    /\ connAlive = [v \in Viewers |-> FALSE]
    /\ pc = [v \in Viewers |-> "new"]
    /\ cur = [v \in Viewers |-> NoMsg]
    /\ inbox = [v \in Viewers |-> << >>]
    /\ outbox = [v \in Viewers |-> << >>]
    /\ nsent = [v \in Viewers |-> 0]
    /\ fsEvent = FALSE
    /\ timer = "off"
    /\ apc = [a \in Appliers |-> "idle"]
    /\ newContent = [a \in Appliers |-> 0]
    /\ positionsCleared = [a \in Appliers |-> FALSE]
    /\ ops = 0
    /\ hpc = "idle"
    /\ hbody = 0
    /\ probe = NoFileCall

\* One call: probe keeps the name of the call and of the one before it, the
\* sidecar and the Record the call found, and what it returned.
FileCall(op, out, err) ==
    /\ ops < MaxFileCalls
    /\ ops' = ops + 1
    /\ probe' = [op |-> op, prev |-> probe.op, file |-> sidecar, rec |-> metadata,
                 out |-> out, err |-> err]
    /\ UNCHANGED <<filePath, diskFile, diskOk, clients, connAlive, pc, cur, inbox,
                   outbox, nsent, watcherVars, httpVars>>

\* SaveMetadata(path, meta) on the Record held.
CallSaveMetadata ==
    /\ FileCall("SaveMetadata", NoRecord, FALSE)
    /\ sidecar' = Marshal(metadata)
    /\ UNCHANGED <<metadata, fileContent>>

\* meta, err := LoadMetadata(path)
CallLoadMetadata ==
    /\ FileCall("LoadMetadata", LoadMetadata(sidecar), LoadMetadataError(sidecar))
    /\ UNCHANGED <<metadata, sidecar, fileContent>>

\* s, err := New(opts): on success the Server holds the text read from the
\* file and the reconciled Record; without a file it holds NewMetadata.
CallNew ==
    IF filePath = ""
    THEN /\ FileCall("New", NewMetadata, FALSE)
         /\ metadata' = NewMetadata
         /\ UNCHANGED <<sidecar, fileContent>>
    ELSE IF NewFails(sidecar)
    THEN /\ FileCall("New", NoRecord, TRUE)
         /\ UNCHANGED <<metadata, sidecar, fileContent>>
    ELSE /\ FileCall("New", NewRecord(sidecar, diskFile), FALSE)
         /\ fileContent' = diskFile
         /\ metadata' = NewRecord(sidecar, diskFile)
         /\ sidecar' = NewSidecar(sidecar, diskFile)

NextFile ==
    \/ CallSaveMetadata
    \/ CallLoadMetadata
    \/ CallNew

SpecFile == InitFile /\ [][NextFile]_vars

\* ================================================================ claims
Last(q) == q[Len(q)]

OverrideTypes == {"position", "vertices", "routing", "label-position"}

AllEmpty(m) ==
    /\ m.positions = EmptyMap
    /\ m.vertices = EmptyMap
    /\ m.routingMode = EmptyMap
    /\ m.labelPositions = EmptyMap

\* Connection v takes the oldest unread message in this step.
Takes(v) ==
    /\ pc[v] = "read" /\ pc'[v] # "closed"
    /\ inbox[v] # << >> /\ inbox'[v] = Tail(inbox[v])

\* A broadcast runs in this step.
BroadcastStep ==
    \/ \E a \in Appliers : apc[a] = "broadcastFile" /\ apc'[a] # "broadcastFile"
    \/ \E a \in Appliers : apc[a] = "broadcastCleared" /\ apc'[a] # "broadcastCleared"
    \/ \E v \in Viewers : pc[v] = "clearBroadcast" /\ pc'[v] # "clearBroadcast"

\* C1: reconcile on a Record stamped with HashSource(T1): with a text of the
\* same fingerprint (T1 itself included) it returns false and leaves the four
\* maps and the fingerprint as they were; with a text of another fingerprint
\* it returns true, empties the four maps and stamps that text's fingerprint.
C1_Reconcile ==
    probe.called =>
        /\ probe.rec.sourceHash = HashSource(probe.text) =>
              /\ ~probe.invalidated
              /\ probe.out = probe.rec
        /\ probe.rec.sourceHash # HashSource(probe.text) =>
              /\ probe.invalidated
              /\ AllEmpty(probe.out)
              /\ probe.out.sourceHash = HashSource(probe.text)
              /\ probe.out.version = probe.rec.version

C1_Witness ==
    /\ probe.called
    /\ probe.invalidated
    /\ probe.rec.vertices # EmptyMap
    /\ probe.rec.labelPositions # EmptyMap

\* C2: with a file opened, whenever an override mutation is applied to the
\* Store or the override snapshot is handed to a connecting viewer, the
\* Record's fingerprint is the fingerprint of the current text.
C2_ReconciledBeforeUse ==
    [][(/\ filePath # ""
        /\ \E v \in Viewers :
              \/ pc[v] = "read" /\ pc'[v] = "persist"
              \/ pc[v] = "initPositions" /\ pc'[v] = "read")
       => metadata.sourceHash = HashSource(fileContent)]_vars

\* What WriteJSON of msg on connection v leaves in its outbox.
Sent(v, msg) == Append(outbox[v], [msg EXCEPT !.failed = ~connAlive[v]])

\* C3 as stated: when an apply step that found changed content of another
\* fingerprint completes (file system working), the cached text is the
\* content it read, the Store is empty under that content's fingerprint, the
\* sidecar holds the cleared Record and every registered viewer has been sent
\* file-changed with that content.
C3_ApplyPostcondition ==
    [][\A a \in Appliers :
          (apc[a] = "broadcastCleared" /\ apc'[a] = "idle" /\ diskOk') =>
              /\ fileContent' = newContent[a]
              /\ AllEmpty(metadata')
              /\ metadata'.sourceHash = HashSource(newContent[a])
              /\ sidecar' = Marshal(metadata')
              /\ \A v \in clients' :
                    \E i \in 1..Len(outbox'[v]) :
                       /\ outbox'[v][i].type = "file-changed"
                       /\ outbox'[v][i].source = newContent[a]]_vars

\* C3 as amended: an apply step that read content differing from the cached
\* text goes on to set the cached text to it; if the stored fingerprint then
\* differs from that content's, it empties the four maps, stamps the new
\* fingerprint and, unless the file system fails, writes the cleared Record to
\* the sidecar; it then sends file-changed with that content to every viewer
\* registered when the broadcast runs.  What other workers do to the text or
\* the Store before the step ends is not undone.
C3_ApplyEffects ==
    [][\A a \in Appliers :
          /\ (apc[a] = "compare" /\ apc'[a] # "compare" /\ newContent[a] # fileContent) =>
                apc'[a] = "update"
          /\ (apc[a] = "update" /\ apc'[a] # "update") =>
                /\ apc'[a] = "validate"
                /\ fileContent' = newContent[a]
          /\ (apc[a] = "validate" /\ apc'[a] # "validate") =>
                /\ apc'[a] = "broadcastFile"
                /\ metadata.sourceHash # HashSource(newContent[a]) =>
                      /\ AllEmpty(metadata')
                      /\ metadata'.sourceHash = HashSource(newContent[a])
                      /\ positionsCleared'[a]
                      /\ diskOk => sidecar' = Marshal(metadata')
          /\ (apc[a] = "broadcastFile" /\ apc'[a] # "broadcastFile") =>
                /\ \A v \in clients : outbox'[v] = Sent(v, FileChangedMsg(newContent[a]))
                /\ positionsCleared[a] => apc'[a] = "broadcastCleared"]_vars

C3_Witness ==
    \E a \in Appliers : \E v \in clients :
        /\ apc[a] = "broadcastCleared"
        /\ fileContent = newContent[a]
        /\ AllEmpty(metadata)
        /\ sidecar = Marshal(metadata)
        /\ sidecar # NoSidecar
        /\ outbox[v] # << >>
        /\ Last(outbox[v]) = FileChangedMsg(newContent[a])

\* C4: a connecting viewer is sent, when any override map is non-empty, one
\* snapshot holding exactly the entries of the four maps of the Store, and
\* none when the Store is empty; with a file opened the text comes first and
\* both arrive within the first two messages.
C4_LateJoinerSnapshot ==
    [][\A v \in Viewers :
          (pc[v] = "initPositions" /\ pc'[v] = "read") =>
              /\ IF AllEmpty(metadata)
                 THEN outbox'[v] = outbox[v]
                 ELSE /\ Len(outbox'[v]) = Len(outbox[v]) + 1
                      /\ Last(outbox'[v]).type = "positions"
                      /\ Last(outbox'[v]).positions = metadata.positions
                      /\ Last(outbox'[v]).allVertices = metadata.vertices
                      /\ Last(outbox'[v]).allRoutingMode = metadata.routingMode
                      /\ Last(outbox'[v]).allLabelPositions = metadata.labelPositions
              /\ filePath # "" =>
                    /\ Len(outbox'[v]) <= 2
                    /\ outbox'[v][1].type = "file-changed"]_vars

\* C5: a position message with an empty nodeId, or a vertices, routing or
\* label-position message with an empty edgeId, gets exactly one error written
\* on its own connection; nothing is written on any other connection and the
\* text, the Record, the sidecar, the backing file and the registry stay as
\* they were.
C5_MalformedIsolated ==
    [][\A v \in Viewers :
          (/\ Takes(v)
           /\ Head(inbox[v]).type \in OverrideTypes
           /\ TargetId(Head(inbox[v])) = EmptyId) =>
              /\ outbox'[v] = Sent(v, ErrorMsg(RequiredError(Head(inbox[v])), Head(inbox[v])))
              /\ \A w \in Viewers \ {v} : outbox'[w] = outbox[w]
              /\ pc' = pc
              /\ UNCHANGED <<fileContent, metadata, sidecar, diskFile, clients>>]_vars

C5_Witness ==
    \E v \in clients : \E w \in clients \ {v} :
        /\ pc[v] = "read"
        /\ pc[w] = "read"
        /\ outbox[v] # << >>
        /\ Last(outbox[v]).type = "error"
        /\ Last(outbox[v]).error = "edgeId is required"
        /\ ~Last(outbox[v]).failed

\* C6 as stated: a message of an unknown kind is answered with one error on
\* the sender's connection only, and changes nothing else.
C6_UnknownKindError ==
    [][\A v \in Viewers :
          (Takes(v) /\ Head(inbox[v]).type \notin KnownTypes) =>
              /\ Len(outbox'[v]) = Len(outbox[v]) + 1
              /\ Last(outbox'[v]).type = "error"
              /\ \A w \in Viewers \ {v} : outbox'[w] = outbox[w]
              /\ UNCHANGED <<fileContent, metadata, sidecar, diskFile, clients>>]_vars

\* C6 as amended: a message of an unknown kind is dropped: nothing is written
\* on any connection, the sender's included, and the text, the Record, the
\* sidecar, the backing file and the registry stay as they were.
C6_UnknownKindIgnored ==
    [][\A v \in Viewers :
          (Takes(v) /\ Head(inbox[v]).type \notin KnownTypes) =>
              /\ outbox' = outbox
              /\ pc' = pc
              /\ UNCHANGED <<fileContent, metadata, sidecar, diskFile, clients>>]_vars

\* A live connection whose single message was taken and left no trace: no
\* reply, no broadcast.
C6_Witness ==
    \E v \in clients : \E w \in clients \ {v} :
        /\ pc[v] = "read"
        /\ connAlive[v]
        /\ nsent[v] = 1
        /\ inbox[v] = << >>
        /\ \A i \in 1..Len(outbox[v]) : outbox[v][i].type \in {"file-changed", "positions"}
        /\ \A i \in 1..Len(outbox[v]) : outbox[v][i].re = 0
        /\ pc[w] = "read"

\* C7: a broadcast writes its message once on every connection registered
\* when it runs, whether or not the write on another one fails, writes on no
\* other connection, and leaves the registry as it was.
C7_BroadcastReachesAll ==
    [][BroadcastStep =>
          /\ clients' = clients
          /\ \A v \in clients :
                /\ Len(outbox'[v]) = Len(outbox[v]) + 1
                /\ SubSeq(outbox'[v], 1, Len(outbox[v])) = outbox[v]
                /\ Last(outbox'[v]).failed = ~connAlive[v]
          /\ \A v \in clients : \A w \in clients :
                [Last(outbox'[w]) EXCEPT !.failed = FALSE]
                   = [Last(outbox'[v]) EXCEPT !.failed = FALSE]
          /\ \A v \in Viewers \ clients : outbox'[v] = outbox[v]]_vars

\* A broadcast has reached a live viewer although the write to another
\* registered viewer failed.
C7_Witness ==
    \E v \in clients : \E w \in clients \ {v} :
        /\ outbox[v] # << >>
        /\ outbox[w] # << >>
        /\ Last(outbox[v]).type = "file-changed"
        /\ Last(outbox[v]).failed
        /\ Last(outbox[w]).type = "file-changed"
        /\ ~Last(outbox[w]).failed
        /\ Last(outbox[w]).source = Last(outbox[v]).source
        /\ Len(outbox[w]) >= 3

\* C8: when a worker ends because its connection closed, that connection and
\* no other leaves the registry, no other worker moves, the text, the Record,
\* the sidecar and every outbox stay as they were; a closed connection is
\* never registered, and nothing is written on it any more.
C8_CloseIsLocal ==
    /\ [][\A v \in Viewers :
             (pc[v] # "closed" /\ pc'[v] = "closed") =>
                 /\ ~connAlive[v]
                 /\ clients' = clients \ {v}
                 /\ \A w \in Viewers \ {v} : pc'[w] = pc[w] /\ inbox'[w] = inbox[w]
                 /\ outbox' = outbox
                 /\ UNCHANGED <<fileContent, metadata, sidecar, diskFile>>]_vars
    /\ [][\A v \in Viewers : pc[v] = "closed" => outbox'[v] = outbox[v]]_vars
    /\ [](\A v \in Viewers : pc[v] = "closed" => v \notin clients)

\* The first viewer's worker has ended; the second viewer, connected later and
\* still registered, was sent a broadcast that was not written on the first
\* one's connection.
C8_Witness ==
    \E v \in Viewers : \E w \in clients :
        /\ v < w
        /\ pc[v] = "closed"
        /\ pc[w] = "read"
        /\ Cardinality({i \in 1..Len(outbox[w]) : outbox[w][i].type = "file-changed"}) = 2
        /\ Cardinality({i \in 1..Len(outbox[v]) : outbox[v][i].type = "file-changed"}) = 1
        /\ \A i \in 1..Len(outbox[w]) : ~outbox[w][i].failed

\* C9: a connection's worker takes a message only while it handles no other,
\* and always the oldest unread one; the replies written on a connection
\* answer its requests in the order they were sent.
C9_InOrder ==
    /\ [][\A v \in Viewers :
             (Len(inbox'[v]) < Len(inbox[v]) /\ pc'[v] # "closed") =>
                 /\ pc[v] = "read"
                 /\ cur[v] = NoMsg
                 /\ inbox'[v] = Tail(inbox[v])]_vars
    /\ [](\A v \in Viewers : \A i, j \in 1..Len(outbox[v]) :
             (i < j /\ outbox[v][i].re > 0 /\ outbox[v][j].re > 0) =>
                 outbox[v][i].re < outbox[v][j].re)
    /\ [](\A v \in Viewers : pc[v] \in {"persist", "saveWrite", "clearBroadcast"} <=> cur[v] # NoMsg)

C9_Witness ==
    \E v \in Viewers : \E i, j \in 1..Len(outbox[v]) :
        /\ outbox[v][i].re = 1
        /\ outbox[v][j].re = 2
        /\ outbox[v][i].type # outbox[v][j].type

\* C10: a position message with a node id sets exactly that id's entry to the
\* message's offset, whatever another viewer's mutation left there, and keeps
\* every other entry and map; unless persisting fails it is acknowledged with
\* position-saved for that id; while two viewers' mutations of one id are both
\* applied and neither handler has finished, the entry is one of the two
\* offsets sent.
C10_LastWriteWins ==
    /\ [][\A v \in Viewers :
             (Takes(v) /\ Head(inbox[v]).type = "position"
                       /\ Head(inbox[v]).nodeId # EmptyId) =>
                 /\ Head(inbox[v]).nodeId \in DOMAIN metadata'.positions
                 /\ metadata'.positions[Head(inbox[v]).nodeId] = Head(inbox[v]).off
                 /\ \A k \in DOMAIN metadata.positions \ {Head(inbox[v]).nodeId} :
                       /\ k \in DOMAIN metadata'.positions
                       /\ metadata'.positions[k] = metadata.positions[k]
                 /\ DOMAIN metadata'.positions
                       = DOMAIN metadata.positions \cup {Head(inbox[v]).nodeId}
                 /\ metadata' = [metadata EXCEPT !.positions = metadata'.positions]]_vars
    /\ [][\A v \in Viewers :
             (pc[v] = "persist" /\ pc'[v] = "read" /\ cur[v].type = "position"
                  /\ (filePath = "" \/ diskOk)) =>
                 outbox'[v] = Sent(v, [OutMsg EXCEPT !.type = "position-saved",
                                                     !.nodeId = cur[v].nodeId,
                                                     !.re = cur[v].seq])]_vars
    /\ [](\A v \in Viewers : \A w \in Viewers \ {v} :
             (/\ pc[v] = "persist" /\ cur[v].type = "position"
              /\ pc[w] = "persist" /\ cur[w].type = "position"
              /\ cur[v].nodeId = cur[w].nodeId) =>
                 /\ cur[v].nodeId \in DOMAIN metadata.positions
                 /\ metadata.positions[cur[v].nodeId] \in {cur[v].off, cur[w].off})

\* Two viewers' offsets for one node are both applied, neither acknowledged.
C10_Witness ==
    \E v \in Viewers : \E w \in Viewers \ {v} :
        /\ pc[v] = "persist" /\ cur[v].type = "position"
        /\ pc[w] = "persist" /\ cur[w].type = "position"
        /\ cur[v].nodeId = cur[w].nodeId
        /\ cur[v].off # cur[w].off
        /\ metadata.positions[cur[v].nodeId] = cur[w].off

\* C11: the sidecar is never written inside a critical section of the Record
\* (a step that writes the sidecar does not also mutate the Record under
\* metadataMu), and what a mutator writes is the Record as its own critical
\* section left it: the sidecar written for a position message holds that
\* message's offset for its node.
C11_SidecarWrittenFromSnapshot ==
    [][/\ sidecar' # sidecar => metadata' = metadata
       /\ \A v \in Viewers :
             (/\ pc[v] = "persist" /\ pc'[v] # "persist"
              /\ cur[v].type = "position"
              /\ filePath # "" /\ diskOk) =>
                 /\ cur[v].nodeId \in DOMAIN sidecar'.positions
                 /\ sidecar'.positions[cur[v].nodeId] = cur[v].off]_vars

\* The kind of acknowledgment each override kind is answered with.
AckType(type) ==
    CASE type = "position" -> "position-saved"
      [] type = "vertices" -> "vertices-saved"
      [] type = "routing" -> "routing-saved"
      [] OTHER -> "label-position-saved"

\* The Store mutation an override message asks for.
Mutation(m, msg) ==
    CASE msg.type = "position" -> SetPosition(m, msg.nodeId, msg.off)
      [] msg.type = "vertices" -> SetVertices(m, msg.edgeId, msg.vertices)
      [] msg.type = "routing" -> SetRoutingMode(m, msg.edgeId, msg.routingMode)
      [] OTHER -> SetLabelPosition(m, msg.edgeId, msg.label)

\* C12: an override message with a non-empty target id has its Store mutation
\* applied; then, with a file opened, the Record is marshalled and the
\* marshalled Record is written to the sidecar;
\* then one acknowledgment of the matching kind with the message's id is
\* written on the sender's connection and nothing on any other; when the
\* write of the sidecar fails, an error is written instead and the sidecar is
\* left as it was.
C12_OverrideAcknowledged ==
    /\ [][\A v \in Viewers :
             (/\ Takes(v)
              /\ Head(inbox[v]).type \in OverrideTypes
              /\ TargetId(Head(inbox[v])) # EmptyId) =>
                 /\ metadata' = Mutation(metadata, Head(inbox[v]))
                 /\ pc'[v] = "persist"
                 /\ cur'[v] = Head(inbox[v])
                 /\ outbox' = outbox]_vars
    /\ [][\A v \in Viewers :
             (pc[v] = "persist" /\ cur[v].data = NoData /\ cur'[v].data # NoData) =>
                 /\ cur'[v].data = Marshal(metadata)
                 /\ UNCHANGED <<metadata, sidecar, outbox, pc>>]_vars
    /\ [][\A v \in Viewers :
             (pc[v] = "persist" /\ pc'[v] # "persist" /\ cur[v].type \in OverrideTypes) =>
                 /\ pc'[v] = "read"
                 /\ \A w \in Viewers \ {v} : outbox'[w] = outbox[w]
                 /\ Len(outbox'[v]) = Len(outbox[v]) + 1
                 /\ SubSeq(outbox'[v], 1, Len(outbox[v])) = outbox[v]
                 /\ Last(outbox'[v]).re = cur[v].seq
                 /\ IF filePath = "" \/ diskOk
                    THEN /\ filePath # "" => sidecar' = cur[v].data
                         /\ Last(outbox'[v]).type = AckType(cur[v].type)
                         /\ cur[v].type = "position" =>
                               Last(outbox'[v]).nodeId = cur[v].nodeId
                         /\ cur[v].type # "position" =>
                               Last(outbox'[v]).edgeId = cur[v].edgeId
                    ELSE /\ sidecar' = sidecar
                         /\ Last(outbox'[v]).type = "error"]_vars

\* A vertices message was acknowledged to its sender alone and is in the
\* sidecar.
C12_Witness ==
    \E v \in clients : \E w \in clients \ {v} :
        /\ pc[v] = "read" /\ pc[w] = "read"
        /\ outbox[v] # << >>
        /\ Last(outbox[v]).type = "vertices-saved"
        /\ Last(outbox[v]).edgeId = EdgeEscaped
        /\ ~Last(outbox[v]).failed
        /\ \A i \in 1..Len(outbox[w]) : outbox[w][i].re = 0
        /\ sidecar # NoSidecar
        /\ sidecar.positions = EmptyMap
        /\ "vertices" \in DOMAIN sidecar
        /\ EdgePlain \in DOMAIN sidecar.vertices
        /\ sidecar.vertices[EdgePlain] = VertexList
        /\ metadata.vertices = sidecar.vertices

\* C13: handling clear-positions empties all four override maps of the Store;
\* the Record is then written to the sidecar (file opened, file system
\* working), and positions-cleared is written on every registered connection,
\* the sender's included.
C13_ClearAllEmptiesStore ==
    /\ [][\A v \in Viewers :
             (Takes(v) /\ Head(inbox[v]).type = "clear-positions") =>
                 AllEmpty(metadata')]_vars
    /\ [][\A v \in Viewers :
             (/\ pc[v] = "persist" /\ pc'[v] = "clearBroadcast"
              /\ filePath # "") => sidecar' = cur[v].data]_vars
    /\ [][\A v \in Viewers :
             (pc[v] = "clearBroadcast" /\ pc'[v] # "clearBroadcast") =>
                 \A w \in clients : outbox'[w] = Sent(w, PositionsClearedMsg)]_vars

\* C14: the copy GetMetadata returns equals the live Record at the time of the
\* call in the fingerprint and in every override map, and no later call on
\* the live Record changes the copy.
C14_SnapshotEqualsRecord ==
    [][/\ (probe'.call.op = "GetMetadata" /\ ops' # ops) =>
             /\ probe'.copy.sourceHash = metadata.sourceHash
             /\ probe'.copy.positions = metadata.positions
             /\ probe'.copy.vertices = metadata.vertices
             /\ probe'.copy.routingMode = metadata.routingMode
             /\ probe'.copy.labelPositions = metadata.labelPositions
       /\ probe'.call.op # "GetMetadata" => probe'.copy = probe.copy]_vars

\* The logical edge a written identifier stands for.
LogicalEdge(edgeID) == IF edgeID = EdgeEscaped THEN EdgePlain ELSE edgeID

\* C15: SetRoutingMode(id, "direct") leaves no entry for id and changes no
\* other entry; after any sequence of calls from the empty Record no entry of
\* routingMode is "direct" or empty; GetRoutingMode of an id without entry
\* returns "direct".
C15_RoutingDefaultElided ==
    /\ \A k \in DOMAIN metadata.routingMode : metadata.routingMode[k] \notin {"direct", ""}
    /\ (probe.call.op = "SetRoutingMode" /\ probe.call.val = "direct") =>
          /\ LogicalEdge(probe.call.id) \notin DOMAIN metadata.routingMode
          /\ DOMAIN metadata.routingMode
                = DOMAIN probe.before.routingMode \ {LogicalEdge(probe.call.id)}
          /\ \A k \in DOMAIN metadata.routingMode :
                metadata.routingMode[k] = probe.before.routingMode[k]
    /\ (/\ probe.call.op = "GetRoutingMode"
        /\ LogicalEdge(probe.call.id) \notin DOMAIN metadata.routingMode) =>
          probe.call.val = "direct"

\* "direct" was set for an edge that had a mode stored.
C15_Witness ==
    /\ probe.call.op = "SetRoutingMode"
    /\ probe.call.val = "direct"
    /\ LogicalEdge(probe.call.id) \in DOMAIN probe.before.routingMode
    /\ metadata.routingMode # EmptyMap

\* C16: SetLabelPosition(id, 0.5, 0, 0) leaves no entry for id whatever it
\* held; any other placement is stored as given; either way no other entry
\* changes; GetLabelPosition of an id without entry returns (0.5, 0, 0).
C16_LabelDefaultElided ==
    /\ probe.call.op = "SetLabelPosition" =>
          /\ IF probe.call.val = <<5, 0, 0>>
             THEN LogicalEdge(probe.call.id) \notin DOMAIN metadata.labelPositions
             ELSE /\ LogicalEdge(probe.call.id) \in DOMAIN metadata.labelPositions
                  /\ metadata.labelPositions[LogicalEdge(probe.call.id)] = probe.call.val
          /\ \A k \in (DOMAIN metadata.labelPositions \cup DOMAIN probe.before.labelPositions)
                         \ {LogicalEdge(probe.call.id)} :
                /\ k \in DOMAIN metadata.labelPositions
                /\ k \in DOMAIN probe.before.labelPositions
                /\ metadata.labelPositions[k] = probe.before.labelPositions[k]
    /\ (/\ probe.call.op = "GetLabelPosition"
        /\ LogicalEdge(probe.call.id) \notin DOMAIN metadata.labelPositions) =>
          probe.call.val = <<5, 0, 0>>

\* The default placement was set for an edge that had a placement stored.
C16_Witness ==
    /\ probe.call.op = "SetLabelPosition"
    /\ probe.call.val = <<5, 0, 0>>
    /\ LogicalEdge(probe.call.id) \in DOMAIN probe.before.labelPositions
    /\ metadata.labelPositions # EmptyMap

\* C17: SetVertices(id, empty list) leaves no key for id; after any sequence
\* of calls from the empty Record no key of vertices holds an empty list.
C17_NoEmptyVertexLists ==
    /\ \A k \in DOMAIN metadata.vertices : Len(metadata.vertices[k]) > 0
    /\ (probe.call.op = "SetVertices" /\ Len(probe.call.val) = 0) =>
          /\ LogicalEdge(probe.call.id) \notin DOMAIN metadata.vertices
          /\ DOMAIN metadata.vertices
                = DOMAIN probe.before.vertices \ {LogicalEdge(probe.call.id)}

\* The empty list was set for an edge that had vertices stored.
C17_Witness ==
    /\ probe.call.op = "SetVertices"
    /\ Len(probe.call.val) = 0
    /\ LogicalEdge(probe.call.id) \in DOMAIN probe.before.vertices

\* C18: SetPosition(id, dx, dy) on a Record without offset for id, followed at
\* once by ClearPosition(id), leaves the Record, and its serialized form,
\* as they were before the set.
C18_SetThenClear ==
    (/\ probe.call.op = "ClearPosition"
     /\ probe.prev.op = "SetPosition"
     /\ probe.prev.id = probe.call.id
     /\ probe.call.id \notin DOMAIN probe.before2.positions) =>
        /\ metadata = probe.before2
        /\ Marshal(metadata) = Marshal(probe.before2)

\* A node's offset was set and cleared in a Record holding another node's.
C18_Witness ==
    /\ probe.call.op = "ClearPosition"
    /\ probe.prev.op = "SetPosition"
    /\ probe.prev.id = probe.call.id
    /\ probe.call.id \notin DOMAIN probe.before2.positions
    /\ probe.before2.positions # EmptyMap
    /\ probe.call.id \in DOMAIN probe.before.positions

MutatorOps == {"SetPosition", "ClearPosition", "SetVertices", "SetRoutingMode",
               "SetLabelPosition"}

\* The latest call repeats the one before it.
Repeated ==
    /\ probe.call.op = probe.prev.op
    /\ probe.call.id = probe.prev.id
    /\ probe.call.val = probe.prev.val

\* C19: a mutator called a second time in a row with the same arguments leaves
\* the Record as the first call left it.
C19_Idempotent ==
    (probe.call.op \in MutatorOps /\ Repeated) => metadata = probe.before

\* An offset was set twice in a row for a node that had another offset.
C19_Witness ==
    /\ probe.call.op = "SetPosition"
    /\ Repeated
    /\ probe.call.id \in DOMAIN probe.before2.positions
    /\ probe.before2.positions[probe.call.id] # probe.call.val

\* The latest two calls name one logical edge in two different spellings.
TwoSpellings ==
    /\ probe.call.id # probe.prev.id
    /\ LogicalEdge(probe.call.id) = LogicalEdge(probe.prev.id)

\* C20: a value set through one spelling of an edge is what a get through
\* another spelling of the same edge returns, a set through the other
\* spelling replaces it without adding a key, and no map ever holds two keys
\* for one logical edge.
C20_OneKeyPerEdge ==
    /\ (probe.call.op = "GetVertices" /\ probe.prev.op = "SetVertices" /\ TwoSpellings) =>
          probe.call.val = probe.prev.val
    /\ (probe.call.op = "GetRoutingMode" /\ probe.prev.op = "SetRoutingMode" /\ TwoSpellings) =>
          probe.call.val = IF probe.prev.val = "" THEN "direct" ELSE probe.prev.val
    /\ (probe.call.op = "GetLabelPosition" /\ probe.prev.op = "SetLabelPosition"
            /\ TwoSpellings) =>
          probe.call.val = probe.prev.val
    /\ (/\ probe.call.op = "SetVertices" /\ probe.prev.op = "SetVertices" /\ TwoSpellings
        /\ Len(probe.call.val) > 0 /\ Len(probe.prev.val) > 0) =>
          /\ DOMAIN metadata.vertices = DOMAIN probe.before.vertices
          /\ GetVertices(metadata, probe.prev.id) = probe.call.val
    /\ (/\ probe.call.op = "SetRoutingMode" /\ probe.prev.op = "SetRoutingMode" /\ TwoSpellings
        /\ probe.call.val \notin {"", "direct"} /\ probe.prev.val \notin {"", "direct"}) =>
          /\ DOMAIN metadata.routingMode = DOMAIN probe.before.routingMode
          /\ GetRoutingMode(metadata, probe.prev.id) = probe.call.val
    /\ (/\ probe.call.op = "SetLabelPosition" /\ probe.prev.op = "SetLabelPosition"
        /\ TwoSpellings
        /\ probe.call.val # <<5, 0, 0>> /\ probe.prev.val # <<5, 0, 0>>) =>
          /\ DOMAIN metadata.labelPositions = DOMAIN probe.before.labelPositions
          /\ GetLabelPosition(metadata, probe.prev.id) = probe.call.val
    /\ \A k \in DOMAIN metadata.vertices \cup DOMAIN metadata.routingMode
                    \cup DOMAIN metadata.labelPositions : k = LogicalEdge(k)

\* Vertices set as "a&gt;b" were replaced through "a>b".
C20_Witness ==
    /\ probe.call.op = "SetVertices" /\ probe.call.id = EdgePlain
    /\ probe.prev.op = "SetVertices" /\ probe.prev.id = EdgeEscaped
    /\ probe.prev.val = VertexList /\ probe.call.val = VertexListB
    /\ DOMAIN metadata.vertices = {EdgePlain}
    /\ metadata.vertices[EdgePlain] = VertexListB

OverrideMaps == {"positions", "vertices", "routingMode", "labelPositions"}

\* C21: SaveMetadata followed by LoadMetadata of the file it wrote returns,
\* without an error, a Record with the version, the fingerprint and every
\* entry of every override map of the Record that was saved.
C21_RoundTrip ==
    (probe.op = "LoadMetadata" /\ probe.prev = "SaveMetadata") =>
        /\ ~probe.err
        /\ probe.out # NoRecord
        /\ probe.out.version = metadata.version
        /\ probe.out.sourceHash = metadata.sourceHash
        /\ \A k \in OverrideMaps :
              /\ DOMAIN probe.out[k] = DOMAIN metadata[k]
              /\ \A id \in DOMAIN metadata[k] : probe.out[k][id] = metadata[k][id]

\* A Record with a label whose offsetY is zero (left out of the file), two
\* positions and version 1 has been saved and loaded again.
C21_Witness ==
    /\ probe.op = "LoadMetadata" /\ probe.prev = "SaveMetadata"
    /\ DOMAIN metadata.positions = {NodeA, NodeB}
    /\ EdgePlain \in DOMAIN metadata.labelPositions
    /\ metadata.labelPositions[EdgePlain] = LabelMoved
    /\ "offsetY" \notin DOMAIN sidecar["labelPositions"][EdgePlain]
    /\ probe.out.labelPositions[EdgePlain] = LabelMoved

\* C22: LoadMetadata returns NewMetadata and no error when the sidecar is
\* absent, an error and no Record when it is malformed, and otherwise no
\* error and the stored version, fingerprint and maps, a map the file leaves
\* out being empty.
C22_Load ==
    probe.op = "LoadMetadata" =>
        /\ probe.file = NoSidecar =>
              /\ ~probe.err
              /\ probe.out = [version |-> 1, positions |-> EmptyMap,
                              vertices |-> EmptyMap, routingMode |-> EmptyMap,
                              labelPositions |-> EmptyMap, sourceHash |-> NoDigest]
        /\ probe.file = MalformedSidecar => (probe.err /\ probe.out = NoRecord)
        /\ probe.file \notin {NoSidecar, MalformedSidecar} =>
              /\ ~probe.err
              /\ probe.out # NoRecord
              /\ "version" \in DOMAIN probe.file =>
                    probe.out.version = probe.file["version"]
              /\ "sourceHash" \in DOMAIN probe.file =>
                    probe.out.sourceHash = probe.file["sourceHash"]
              /\ \A k \in OverrideMaps :
                    IF k \in DOMAIN probe.file
                    THEN /\ DOMAIN probe.out[k] = DOMAIN probe.file[k]
                         /\ \A id \in DOMAIN probe.file[k] :
                               IF k = "labelPositions"
                               THEN probe.out[k][id][1] = probe.file[k][id]["distance"]
                               ELSE probe.out[k][id] = probe.file[k][id]
                    ELSE probe.out[k] = EmptyMap

\* LoadMetadata has been called on a malformed sidecar.
C22_Witness ==
    /\ probe.op = "LoadMetadata"
    /\ probe.file = MalformedSidecar
    /\ probe.err

C24_Serialization ==
    probe.op = "SaveMetadata" =>
        /\ {"version", "positions", "sourceHash"} \subseteq DOMAIN sidecar
        /\ sidecar["version"] = metadata.version
        /\ sidecar["sourceHash"] = metadata.sourceHash
        /\ \A k \in {"vertices", "routingMode", "labelPositions"} :
              (k \in DOMAIN sidecar) <=> (DOMAIN metadata[k] # {})
        /\ \A k \in OverrideMaps \cap DOMAIN sidecar :
              /\ DOMAIN sidecar[k] = DOMAIN metadata[k]
              /\ k # "labelPositions" => sidecar[k] = metadata[k]

\* A Record with vertices but no routing modes has been saved.
C24_Witness ==
    /\ probe.op = "SaveMetadata"
    /\ metadata.vertices # EmptyMap
    /\ metadata.routingMode = EmptyMap
    /\ metadata.positions = EmptyMap
    /\ "vertices" \in DOMAIN sidecar
    /\ "routingMode" \notin DOMAIN sidecar
    /\ "positions" \in DOMAIN sidecar

\* C25: when a render message is answered with an error, the error carries
\* the renderer's diagnostic and the message's id and is written on the
\* sender's connection only; the cached text, the file, the Record, the
\* sidecar and the registry are unchanged, and the sender's goroutine is back
\* at reading its next message.
C25_RenderFailure ==
    [][\A v \in Viewers :
          (/\ Takes(v)
           /\ Head(inbox[v]).type = "render"
           /\ \E w \in Viewers :
                 /\ Len(outbox'[w]) > Len(outbox[w])
                 /\ Last(outbox'[w]).type = "error") =>
              /\ outbox'[v] = Sent(v, ErrorMsg("compile error", Head(inbox[v])))
              /\ \A w \in Viewers \ {v} : outbox'[w] = outbox[w]
              /\ pc'[v] = "read"
              /\ UNCHANGED <<fileContent, diskFile, metadata, sidecar, clients>>]_vars

\* A viewer's render failed and its next message, a position, was applied
\* and acknowledged; the other registered viewer was written nothing.
C25_Witness ==
    \E v \in clients : \E w \in clients \ {v} :
        /\ Len(outbox[v]) >= 2
        /\ outbox[v][Len(outbox[v]) - 1].type = "error"
        /\ outbox[v][Len(outbox[v]) - 1].error = "compile error"
        /\ ~outbox[v][Len(outbox[v]) - 1].failed
        /\ Last(outbox[v]).type = "position-saved"
        /\ Last(outbox[v]).re = 2
        /\ NodeA \in DOMAIN metadata.positions
        /\ \A i \in 1..Len(outbox[w]) : outbox[w][i].re = 0

\* C26: with a file opened, taking a save message sets the cached text to
\* the message's text and writes nothing yet; the write that follows puts
\* that text in the file and answers "saved" on the sender's connection
\* alone, or, when it fails, leaves the file and answers "error"; "saved" is
\* written only after a successful write, and if the cached text is still
\* the saved text, cache and file then both hold it.
C26_Save ==
    /\ [][\A v \in Viewers :
             (Takes(v) /\ Head(inbox[v]).type = "save" /\ filePath # "") =>
                 /\ fileContent' = Head(inbox[v]).source
                 /\ pc'[v] = "saveWrite"
                 /\ cur'[v] = Head(inbox[v])
                 /\ diskFile' = diskFile
                 /\ outbox' = outbox]_vars
    /\ [][\A v \in Viewers :
             (pc[v] = "saveWrite" /\ pc'[v] # "saveWrite") =>
                 /\ pc'[v] = "read"
                 /\ \A w \in Viewers \ {v} : outbox'[w] = outbox[w]
                 /\ Len(outbox'[v]) = Len(outbox[v]) + 1
                 /\ SubSeq(outbox'[v], 1, Len(outbox[v])) = outbox[v]
                 /\ Last(outbox'[v]).re = cur[v].seq
                 /\ fileContent' = fileContent
                 /\ IF Last(outbox'[v]).type = "saved"
                    THEN /\ diskOk
                         /\ diskFile' = cur[v].source
                         /\ fileContent = cur[v].source => fileContent' = diskFile'
                    ELSE /\ ~diskOk
                         /\ Last(outbox'[v]).type = "error"
                         /\ diskFile' = diskFile]_vars

\* A viewer saved a text other than the opened one and was told "saved";
\* cache and file hold that text.
C26_Witness ==
    \E v \in clients :
        /\ pc[v] = "read"
        /\ outbox[v] # << >>
        /\ Last(outbox[v]).type = "saved"
        /\ ~Last(outbox[v]).failed
        /\ fileContent = 2 /\ diskFile = 2

C28_UnchangedContentNoOp ==
    /\ [][\A a \in Appliers :
             (apc[a] = "readFile" /\ apc'[a] # "readFile") =>
                 UNCHANGED <<fileContent, diskFile, metadata, sidecar, clients,
                             outbox, timer>>]_vars
    /\ [][\A a \in Appliers :
             (/\ apc[a] = "compare"
              /\ apc'[a] # "compare"
              /\ newContent[a] = fileContent) =>
                 /\ apc'[a] = "idle"
                 /\ UNCHANGED <<fileContent, diskFile, metadata, sidecar, clients,
                                outbox, timer>>]_vars

\* A viewer's save wrote the file, the event was taken, the timer expired
\* and the apply step is over; both viewers are registered and neither was
\* written file-changed again.
C28_Witness ==
    /\ clients = Viewers /\ diskOk
    /\ \E v \in clients :
          /\ outbox[v] # << >>
          /\ Last(outbox[v]).type = "saved"
    /\ fileContent = diskFile /\ diskFile # InitText
    /\ ~fsEvent /\ timer = "off"
    /\ \A a \in Appliers : apc[a] = "idle"
    /\ \A v \in clients :
          \A i \in 2..Len(outbox[v]) : outbox[v][i].type # "file-changed"

C30_NoFeedback ==
    \A a \in Appliers : apc[a] \in {"idle", "readFile", "compare"}

\* C31 as stated: at most one handleFileChanged is executing at any time.
C31_SingleApply ==
    Cardinality({a \in Appliers : apc[a] # "idle"}) <= 1

\* C32 as stated: every key of every override map is in normalized form:
\* normalizing it gives the key itself.
C32_KeysNormalized ==
    \A k \in OverrideMaps :
        \A id \in DOMAIN metadata[k] : NormalizeEdgeID(id) = id

\* The map an override kind or mutator writes, and the key it writes under.
OwnMap(kind) ==
    CASE kind \in {"position", "SetPosition", "ClearPosition"} -> "positions"
      [] kind \in {"vertices", "SetVertices"} -> "vertices"
      [] kind \in {"routing", "SetRoutingMode"} -> "routingMode"
      [] OTHER -> "labelPositions"

OwnKey(kind, id) ==
    IF OwnMap(kind) = "positions" THEN id ELSE NormalizeEdgeID(id)

\* Records m and n differ at most in the entry of key in map own.
SameBut(m, n, own, key) ==
    /\ m.version = n.version
    /\ m.sourceHash = n.sourceHash
    /\ \A k \in OverrideMaps \ {own} : m[k] = n[k]
    /\ \A id \in (DOMAIN m[own] \cup DOMAIN n[own]) \ {key} :
          /\ id \in DOMAIN m[own] /\ id \in DOMAIN n[own]
          /\ m[own][id] = n[own][id]

C33_MutatorFrame ==
    probe.call.op \in MutatorOps =>
        SameBut(probe.before, metadata, OwnMap(probe.call.op),
                OwnKey(probe.call.op, probe.call.id))

Quiescent ==
    /\ \A v \in Viewers : pc[v] \in {"new", "read", "closed"} /\ inbox[v] = << >>
    /\ \A a \in Appliers : apc[a] = "idle"
    /\ hpc = "idle"
    /\ ~fsEvent
    /\ timer = "off"

\* C34 as stated: with a file opened and no I/O error, once every override
\* mutation, clear-all and apply step has completed, the sidecar file holds
\* the serialization of the Record in memory.
C34_SidecarConverges ==
    (Quiescent /\ filePath # "" /\ diskOk) => sidecar = Marshal(metadata)

\* C35 as stated, for the viewers that saved nothing themselves: with a file
\* opened and the disk working, in a quiescent state, the text of the last file-changed written
\* on a live registered connection is the server's cached text.
C35_TextConverges ==
    (Quiescent /\ filePath # "" /\ diskOk) =>
        \A v \in clients :
            (/\ connAlive[v]
             /\ pc[v] = "read"
             /\ \A i \in 1..Len(outbox[v]) : outbox[v][i].type # "saved") =>
                \E i \in 1..Len(outbox[v]) :
                    /\ outbox[v][i].type = "file-changed"
                    /\ \A j \in (i + 1)..Len(outbox[v]) : outbox[v][j].type # "file-changed"
                    /\ outbox[v][i].source = fileContent

\* C36 as stated, its last part: with a file opened, nothing has been written
\* on a registered connection whose goroutine has not yet sent the initial
\* text.
C36_InitialTextFirst ==
    \A v \in Viewers :
        (filePath # "" /\ pc[v] = "initContent") => outbox[v] = << >>

\* C37 as stated, its first part: every connection that an apply step
\* writes its positions-cleared notice on has been written a file-changed
\* with the text of that step before.
C37_TextBeforeNotice ==
    [][\A a \in Appliers :
          (apc[a] = "broadcastCleared" /\ apc'[a] # "broadcastCleared") =>
              \A v \in clients :
                  \E i \in 1..Len(outbox[v]) :
                      /\ outbox[v][i].type = "file-changed"
                      /\ outbox[v][i].source = newContent[a]]_vars

\* C37, the two broadcasts of one apply step taken alone: file-changed with
\* the text read is written on every connection registered then, and after
\* an invalidation the notice follows, written on every connection
\* registered then.
C37_StepOrder ==
    /\ [][\A a \in Appliers :
             (apc[a] = "broadcastFile" /\ apc'[a] # "broadcastFile") =>
                 /\ \A v \in clients : outbox'[v] = Sent(v, FileChangedMsg(newContent[a]))
                 /\ \A v \in Viewers \ clients : outbox'[v] = outbox[v]
                 /\ positionsCleared[a] => apc'[a] = "broadcastCleared"
                 /\ ~positionsCleared[a] => apc'[a] = "idle"]_vars
    /\ [][\A a \in Appliers :
             (apc[a] = "broadcastCleared" /\ apc'[a] # "broadcastCleared") =>
                 /\ \A v \in clients : outbox'[v] = Sent(v, PositionsClearedMsg)
                 /\ \A v \in Viewers \ clients : outbox'[v] = outbox[v]
                 /\ apc'[a] = "idle"]_vars
    /\ [][\A a \in Appliers :
             (apc[a] # "broadcastCleared" /\ apc'[a] = "broadcastCleared") =>
                 apc[a] = "broadcastFile"]_vars

\* C38 as stated: with a file opened and the disk failed (it stays failed,
\* so the operation ends with an error reply), handling an override message
\* or clear-positions leaves the Record unchanged, and handling a save
\* leaves the cached text unchanged.
C38_ErrorLeavesState ==
    /\ [][\A v \in Viewers :
             (/\ Takes(v)
              /\ filePath # "" /\ ~diskOk
              /\ \/ Head(inbox[v]).type = "clear-positions"
                 \/ /\ Head(inbox[v]).type \in OverrideTypes
                    /\ TargetId(Head(inbox[v])) # EmptyId) =>
                 metadata' = metadata]_vars
    /\ [][\A v \in Viewers :
             (/\ Takes(v)
              /\ filePath # "" /\ ~diskOk
              /\ Head(inbox[v]).type = "save") =>
                 fileContent' = fileContent]_vars

\* C39: with no file opened, a save message is answered with the error
\* "No file opened" on the sender's connection and changes nothing else;
\* an override message with a non-empty id and clear-positions are applied
\* to the Record, and the step that follows acknowledges them (the override
\* with its acknowledgment, clear-positions by going on to its broadcast)
\* with the sidecar left as it was; the initial-text step of a connecting
\* viewer writes nothing, and no file-changed is ever written; the watcher
\* never leaves its initial state and no sidecar exists.
C39_NoFileOpened ==
    /\ [][\A v \in Viewers :
             (filePath = "" /\ Takes(v) /\ Head(inbox[v]).type = "save") =>
                 /\ outbox' = WriteJSON(outbox, v,
                                        ErrorMsg("No file opened", Head(inbox[v])))
                 /\ UNCHANGED <<filePath, fileContent, diskFile, metadata, sidecar,
                                diskOk, clients, connAlive, pc, cur, watcherVars,
                                httpVars>>]_vars
    /\ [][\A v \in Viewers :
             (/\ filePath = "" /\ Takes(v)
              /\ Head(inbox[v]).type \in OverrideTypes
              /\ TargetId(Head(inbox[v])) # EmptyId) =>
                 /\ metadata' = Mutation(metadata, Head(inbox[v]))
                 /\ sidecar' = sidecar]_vars
    /\ [][\A v \in Viewers :
             (filePath = "" /\ Takes(v) /\ Head(inbox[v]).type = "clear-positions") =>
                 /\ metadata' = [metadata EXCEPT !.positions = EmptyMap]
                 /\ sidecar' = sidecar]_vars
    /\ [][\A v \in Viewers :
             (filePath = "" /\ pc[v] = "persist" /\ pc'[v] # "persist") =>
                 /\ sidecar' = sidecar
                 /\ metadata' = metadata
                 /\ cur[v].data = NoData
                 /\ IF cur[v].type = "clear-positions"
                    THEN pc'[v] = "clearBroadcast" /\ outbox' = outbox
                    ELSE /\ outbox' = WriteJSON(outbox, v, AckMsg(cur[v]))
                         /\ Last(outbox'[v]).type = AckType(cur[v].type)]_vars
    /\ [][\A v \in Viewers :
             (filePath = "" /\ pc[v] = "initContent" /\ pc'[v] # "initContent") =>
                 outbox' = outbox]_vars
    /\ [](filePath = "" =>
             /\ sidecar = NoSidecar
             /\ ~fsEvent
             /\ timer = "off"
             /\ \A a \in Appliers : apc[a] = "idle"
             /\ \A v \in Viewers : \A i \in 1..Len(outbox[v]) :
                   outbox[v][i].type # "file-changed")

\* With no file opened a viewer connected, was sent no text, had a save
\* refused with "No file opened" and a position acknowledged; the position
\* is in the Record and there is no sidecar.
C39_Witness ==
    /\ filePath = ""
    /\ sidecar = NoSidecar
    /\ metadata.positions # EmptyMap
    /\ \E v \in clients :
          /\ pc[v] = "read"
          /\ \E i \in 1..Len(outbox[v]) :
                /\ outbox[v][i].type = "error"
                /\ outbox[v][i].error = "No file opened"
                /\ ~outbox[v][i].failed
          /\ \E i \in 1..Len(outbox[v]) :
                /\ outbox[v][i].type = "position-saved"
                /\ ~outbox[v][i].failed
          /\ \A i \in 1..Len(outbox[v]) : outbox[v][i].type # "file-changed"

====
